---- MODULE Spec2Model ----
(***************************************************************************)
(* Zone01 profile dashboard (fnamayi/graghq).                              *)
(*                                                                         *)
(* Spec        the modular application: Auth (login, logout, init,         *)
(*             validateSession, handleAuthError),                          *)
(*             API.fetchCompleteUserData with its eight queries in flight, *)
(*             UI.renderProfile, and the timers that switch screens.       *)
(* SpecOverlap two fetch cycles of one session whose responses interleave. *)
(* SpecToken   the token inspector applied to stored tokens of every       *)
(*             shape, at every time of the clock.                          *)
(* SpecApp     the consolidated application of src/app.js.                 *)
(* SpecDerive  the values API.fetchCompleteUserData derives: total XP,     *)
(*             level, audit ratio, pass and fail counts, pass rate.        *)
(* SpecSkills  the skills from the skills query to the skills chart.       *)
(* SpecCharts  the XP-by-project chart and the piscine chart.              *)
(* SpecRender  one chart renderer called again and again on a container.   *)
(* SpecAllCharts  UI.createAllCharts on a page with some containers.       *)
(* SpecExtract API.extractSkillFromProject on one project.                 *)
(***************************************************************************)
EXTENDS Integers, Sequences, FiniteSets, TLC

VARIABLES
    token,          \* localStorage[CONFIG.TOKEN_KEY]
    userCache,      \* localStorage[CONFIG.USER_KEY]
    isLoggedIn,     \* auth.isLoggedIn
    screen,         \* what #app holds: "blank", "login" or "profile"
    shown,          \* the dataset the profile screen was built from
    loading,        \* TRUE while #loading is not hidden
    now,            \* Date.now() / 1000
    booted,         \* the DOMContentLoaded timer has run App.init
    loginBusy,      \* an Auth.login request is in flight
    loginError,     \* TRUE while #login-error is not hidden
    profileTimers,  \* pending setTimeout(() => renderProfile(), 1000)
    loginTimer,     \* a pending setTimeout(() => UI.renderLogin(), ...)
    cycles,         \* the fetch cycles, by order of start
    started,        \* number of fetch cycles started so far
    tk,             \* SpecToken: the token under inspection and the results
    app,            \* SpecApp: the state of the consolidated application
    eng,            \* SpecDerive: a transaction list and what is derived
    skl,            \* SpecSkills: the skills query's answer and the skills
    chart,          \* SpecCharts: a chart's input and what it draws
    dom,            \* SpecRender: a renderer's input and its container
    page,           \* SpecAllCharts: the dataset and the chart containers
    ext             \* SpecExtract: a project and the skill it is labelled with

vars == <<token, userCache, isLoggedIn, screen, shown, loading, now, booted,
          loginBusy, loginError, profileTimers, loginTimer, cycles, started,
          tk, app, eng, skl, chart, dom, page, ext>>

----------------------------------------------------------------------------
(* Bounds *)

MaxCycles == 1
MaxNow == 2
MaxTimers == 1
MaxOverlap == 2
MaxTx == 3
MaxProgress == 4
MaxSkillTx == 2
MaxProjects == 2
MaxGroups == 12
MaxPiscine == 3
MaxLine == 3
MaxDate == 2
MaxCalls == 2

----------------------------------------------------------------------------
(* JavaScript values, as far as the code's coercions tell them apart *)

Undefined == [t |-> "undefined", n |-> 0, s |-> <<>>]
Null == [t |-> "null", n |-> 0, s |-> <<>>]
NaN == [t |-> "NaN", n |-> 0, s |-> <<>>]
Num(x) == [t |-> "number", n |-> x, s |-> <<>>]
Str(cs) == [t |-> "string", n |-> 0, s |-> cs]

DigitChars == <<"0", "1", "2", "3", "4", "5", "6", "7", "8", "9">>

IsDigit(c) == \E i \in 1..10 : DigitChars[i] = c

DigitVal(c) == (CHOOSE i \in 1..10 : DigitChars[i] = c) - 1

\* !v
Falsy(v) ==
    \/ v.t \in {"undefined", "null", "NaN"}
    \/ v.t = "number" /\ v.n = 0
    \/ v.t = "string" /\ v.s = <<>>

RECURSIVE DigitPrefix(_, _, _)
\* The value of the longest run of digits of cs from position i on, acc so far.
DigitPrefix(cs, i, acc) ==
    IF i > Len(cs) \/ ~IsDigit(cs[i]) THEN acc
    ELSE DigitPrefix(cs, i + 1, 10 * acc + DigitVal(cs[i]))

RECURSIVE SkipSpaces(_, _)
SkipSpaces(cs, i) ==
    IF i <= Len(cs) /\ cs[i] = " " THEN SkipSpaces(cs, i + 1) ELSE i

\* parseInt(v): numbers of the model are integers and parse to themselves; a
\* string parses to its leading sign and digits, and to NaN without a digit.
ParseInt(v) ==
    IF v.t = "number" THEN v
    ELSE IF v.t # "string" THEN NaN
    ELSE LET i == SkipSpaces(v.s, 1)
             neg == i <= Len(v.s) /\ v.s[i] = "-"
             j == IF i <= Len(v.s) /\ v.s[i] \in {"-", "+"} THEN i + 1 ELSE i
         IN  IF j > Len(v.s) \/ ~IsDigit(v.s[j]) THEN NaN
             ELSE Num((IF neg THEN -1 ELSE 1) * DigitPrefix(v.s, j, 0))

RECURSIVE AllDigits(_, _)
AllDigits(cs, i) == i > Len(cs) \/ (IsDigit(cs[i]) /\ AllDigits(cs, i + 1))

\* ToNumber(v), the coercion of the relational operators
ToNumber(v) ==
    CASE v.t = "number" -> v
      [] v.t = "null" -> Num(0)
      [] v.t = "string" ->
            IF v.s = <<>> THEN Num(0)
            ELSE IF AllDigits(v.s, 1) THEN Num(DigitPrefix(v.s, 1, 0))
            ELSE NaN
      [] OTHER -> NaN

\* a > b and a <= b against a number b: false as soon as a coerces to NaN
JsGreater(a, b) == ToNumber(a).t = "number" /\ ToNumber(a).n > b

JsLessEq(a, b) == ToNumber(a).t = "number" /\ ToNumber(a).n <= b

----------------------------------------------------------------------------
(* Error messages, split at the substrings the code searches them for *)

MSG_TOKEN_EXPIRED == <<"Session expired. Please login again">>
MSG_NO_USER_ID == <<"User ID not available">>
MSG_NO_USER == <<"User information not found">>
MSG_HTTP_500 == <<"HTTP 500: Internal Server Error">>
MSG_GRAPHQL == <<"GraphQL Error: field not found">>
MSG_GRAPHQL_JWT == <<"GraphQL Error: invalid ", "token">>
MSG_TYPE_ERROR == <<"Cannot read properties of undefined (reading 'data')">>
NoMessage == <<>>

\* msg.includes(part)
Includes(msg, part) == \E i \in DOMAIN msg : msg[i] = part

----------------------------------------------------------------------------
(* Tokens: what parseJwt makes of the stored string *)

NoToken == [has |-> FALSE, dec |-> FALSE, sub |-> Undefined, exp |-> Undefined]

Token(sub, exp) == [has |-> TRUE, dec |-> TRUE, sub |-> sub, exp |-> exp]

\* a stored string whose payload does not decode
JunkToken == [has |-> TRUE, dec |-> FALSE, sub |-> Undefined, exp |-> Undefined]

\* the token the credential exchange issues at time t
IssuedToken(t) == Token(Str(<<"7">>), Num(t + 1))

\* a stored token whose payload reads {"sub": "7", "exp": 0}
EpochToken == Token(Str(<<"7">>), Num(0))

\* Utils.getUserIdFromToken, with "throws" as the result [ok |-> FALSE]
getUserIdFromToken(tok) ==
    IF ~tok.has THEN [ok |-> FALSE, id |-> Undefined]
    ELSE IF ~tok.dec \/ Falsy(tok.sub) THEN [ok |-> FALSE, id |-> Undefined]
    ELSE [ok |-> TRUE, id |-> ParseInt(tok.sub)]

\* Auth.getCurrentUserId: null when getUserIdFromToken throws
getCurrentUserId(tok) ==
    IF getUserIdFromToken(tok).ok THEN getUserIdFromToken(tok).id ELSE Null

\* Utils.isAuthenticated
isAuthenticated(tok, t) ==
    IF ~tok.has THEN FALSE
    ELSE IF ~tok.dec \/ Falsy(tok.exp) THEN FALSE
    ELSE JsGreater(tok.exp, t)

\* Auth.validateSession: the value it returns and whether it calls logout()
validateSession(tok, t) ==
    IF ~tok.has THEN [valid |-> FALSE, logout |-> FALSE]
    ELSE IF ~tok.dec \/ Falsy(tok.exp) THEN [valid |-> FALSE, logout |-> FALSE]
    ELSE IF JsLessEq(tok.exp, t) THEN [valid |-> FALSE, logout |-> TRUE]
    ELSE [valid |-> TRUE, logout |-> FALSE]

\* the payloads a stored token may carry
SubSamples ==
    {Undefined, Num(0), Num(7), Str(<<"7">>), Str(<<"1", "2", "a">>),
     Str(<<"a", "b", "c">>), Str(<<>>)}

ExpSamples ==
    {Undefined, Null, Num(0), Num(1), Num(2), Num(3), Str(<<"3">>),
     Str(<<"s", "o", "o", "n">>)}

TokenSamples ==
    {NoToken, JunkToken} \cup {Token(s, e) : s \in SubSamples, e \in ExpSamples}

\* no function of the token inspector has been called yet
IdleInspector ==
    [fn |-> "none", arg |-> NoToken, at |-> 0, ret |-> FALSE, id |-> Undefined]

\* the consolidated application before DOMContentLoaded
IdleApp ==
    [tok |-> NoToken, pc |-> "boot", userId |-> Undefined, sent |-> <<>>,
     txs |-> <<>>, maxXP |-> Undefined, audits |-> 0]

\* what the derivation reads (the transactions, the two audit sums, the
\* grades of the progress entries) and what it derives, before it has run
EngineOn(txs, up, down, progress) ==
    [txs |-> txs, up |-> up, down |-> down, progress |-> progress,
     done |-> FALSE, totalXP |-> Undefined, level |-> Undefined,
     auditUp |-> Undefined, auditDown |-> Undefined, auditRatio |-> Undefined,
     passedProjects |-> 0, failedProjects |-> 0, totalProjects |-> 0,
     passRate |-> 0]

IdleEngine == EngineOn(<<>>, Null, Null, <<>>)

\* the skills pipeline before the skills query has been answered
SkillsOn(build, outcome, st, ps, progress, level, totalProjects) ==
    [build |-> build, outcome |-> outcome,
     skillTransactions |-> st, projectSkills |-> ps,
     progress |-> progress, level |-> level, totalProjects |-> totalProjects,
     done |-> FALSE, returned |-> <<>>, skills |-> <<>>, skillsData |-> <<>>,
     topSkills |-> <<>>]

IdleSkills == SkillsOn("api.js", "data", <<>>, <<>>, <<>>, 0, 0)

\* a chart before it is drawn
ChartOn(kind, transactions, progress) ==
    [kind |-> kind, transactions |-> transactions, progress |-> progress,
     done |-> FALSE, projectData |-> <<>>, bars |-> <<>>]

IdleChart == ChartOn("none", <<>>, <<>>)

\* a renderer and its input, before it is called on its empty container
DomOn(renderer, transactions, up, down, skills) ==
    [renderer |-> renderer, transactions |-> transactions, up |-> up,
     down |-> down, skills |-> skills,
     given |-> [transactions |-> transactions, skills |-> skills],
     container |-> <<>>, calls |-> 0]

IdleDom == DomOn("none", <<>>, 0, 0, <<>>)

\* the six chart containers in the order UI.createAllCharts draws them
ChartContainers ==
    <<"xp-progress-chart", "audit-chart", "project-ratio-chart",
      "xp-by-project-chart", "piscine-stats-chart", "skills-chart">>

\* the profile page before UI.createAllCharts: the containers that exist,
\* the dataset, and what each container holds
PageOn(present, userData) ==
    [present |-> present, userData |-> userData,
     drawn |-> [k \in DOMAIN ChartContainers |-> "none"],
     done |-> FALSE, error |-> FALSE]

IdlePage == PageOn({}, <<>>)

\* a project before API.extractSkillFromProject labels it
ExtractOn(projectName, path) ==
    [projectName |-> projectName, path |-> path, done |-> FALSE,
     skillName |-> <<>>]

IdleExt == ExtractOn(Str(<<>>), Null)

----------------------------------------------------------------------------
(* The cached dataset *)

NoData == [has |-> FALSE, cycle |-> 0, id |-> 0, skills |-> "none",
           dataComplete |-> FALSE, lastUpdated |-> 0]

\* a dataset an earlier page load left in localStorage
OldData == [has |-> TRUE, cycle |-> 0, id |-> 7, skills |-> "explicit",
            dataComplete |-> TRUE, lastUpdated |-> 0]

Queries == {"userInfo", "transactions", "auditUp", "auditDown", "progress",
            "results", "projects", "skills"}

Required == Queries \ {"skills"}

\* what the remote source may answer to one query
Answers == {"ok", "noUser", "http401", "http500", "gqlError", "gqlJwt"}

IdleCycle == [st |-> "idle", resp |-> [q \in Queries |-> "none"], id |-> 0,
              origin |-> "none", err |-> NoMessage]


\* a dataset written before it is marked complete
BuildUserDataPartial(c, userId, skillsKind, t) ==
    [has |-> TRUE, cycle |-> c, id |-> userId, skills |-> skillsKind,
     dataComplete |-> FALSE, lastUpdated |-> t]

\* the userData object of API.fetchCompleteUserData; cycle is the fetch cycle
\* that assembled it
BuildUserData(c, userId, skillsKind, t) ==
    [has |-> TRUE, cycle |-> c, id |-> userId, skills |-> skillsKind,
     dataComplete |-> TRUE, lastUpdated |-> t]

CycleIds == 1..MaxCycles

----------------------------------------------------------------------------
(* Spec: the modular application *)

Init ==
    /\ token \in {NoToken, JunkToken, IssuedToken(1), EpochToken}
    /\ userCache \in {NoData, OldData}
    /\ isLoggedIn = FALSE
    /\ screen = "blank"
    /\ shown = NoData
    /\ loading = TRUE
    /\ now = 1
    /\ booted = FALSE
    /\ loginBusy = FALSE
    /\ loginError = FALSE
    /\ profileTimers = 0
    /\ loginTimer = FALSE
    /\ cycles = [c \in CycleIds |-> IdleCycle]
    /\ started = 0
    /\ tk = IdleInspector
    /\ app = IdleApp
    /\ eng = IdleEngine
    /\ skl = IdleSkills
    /\ chart = IdleChart
    /\ dom = IdleDom
    /\ page = IdlePage
    /\ ext = IdleExt

\* Auth.handleAuthError: TRUE when it calls logout(), FALSE when it only
\* shows the message
handleAuthError(msg) == Includes(msg, "401") \/ Includes(msg, "token")

\* the catch block of UI.renderProfile: TRUE when it schedules renderLogin
redirectsToLogin(msg) == Includes(msg, "token") \/ Includes(msg, "401")

\* UI.renderProfile up to its first suspension: showLoading, then
\* API.fetchCompleteUserData reads the identity and either throws or issues
\* every query at once.  tok is the stored token at that moment.
RenderProfile(tok, origin) ==
    LET userId == getCurrentUserId(tok) IN
    IF Falsy(userId)
    THEN \* 'User ID not available': both catch blocks hide the indicator
         /\ loading' = FALSE
         /\ UNCHANGED <<cycles, started>>
    ELSE /\ started < MaxCycles
         /\ started' = started + 1
         /\ cycles' = [cycles EXCEPT ![started + 1] =
                [st |-> "running", resp |-> [q \in Queries |-> "pending"],
                 id |-> userId.n, origin |-> origin, err |-> NoMessage]]
         /\ loading' = TRUE

\* the timer of DOMContentLoaded: App.init, then Utils.hideLoading
AppInit ==
    /\ ~booted
    /\ booted' = TRUE
    /\ LET v == validateSession(token, now) IN
       IF v.valid
       THEN /\ isLoggedIn' = TRUE
            /\ RenderProfile(token, "init")
            /\ UNCHANGED <<token, userCache, screen, shown, loginTimer>>
       ELSE /\ isLoggedIn' = FALSE
            /\ token' = IF v.logout THEN NoToken ELSE token
            /\ userCache' = IF v.logout THEN NoData ELSE userCache
            /\ loginTimer' = (loginTimer \/ v.logout)
            /\ screen' = "login"
            /\ shown' = NoData
            /\ loading' = FALSE
            /\ UNCHANGED <<cycles, started>>
    /\ loginError' = FALSE
    /\ UNCHANGED <<now, loginBusy, profileTimers, tk, app, eng, skl, chart,
                   dom, page, ext>>

\* the submit handler of the login form up to the request of Auth.login; the
\* button stays disabled while a request is in flight
LoginSubmit(filled) ==
    /\ screen = "login"
    /\ ~loginBusy
    /\ IF filled
       THEN loginBusy' = TRUE /\ loading' = TRUE /\ loginError' = FALSE
       ELSE loginError' = TRUE /\ UNCHANGED <<loginBusy, loading>>
    /\ UNCHANGED <<token, userCache, isLoggedIn, screen, shown, now, booted,
                   profileTimers, loginTimer, cycles, started, tk, app, eng, skl, chart,
                   dom, page, ext>>

LoginAnswers == {"ok", "unauthorized", "error", "noToken", "badToken"}

\* Auth.login storing the token before it has validated the payload
loginTokenUnchecked(r, t) ==
    IF r = "ok" THEN IssuedToken(t)
    ELSE IF r = "badToken" THEN Token(Undefined, Num(t + 1))
    ELSE NoToken

\* the token Auth.login stores for an answer, NoToken when it throws
loginToken(r, t) == IF r = "ok" THEN IssuedToken(t) ELSE NoToken

\* Auth.login from the response on, and the rest of the submit handler
LoginResponse(r) ==
    /\ loginBusy
    /\ loginBusy' = FALSE
    /\ loading' = FALSE
    /\ IF loginToken(r, now).has
       THEN /\ profileTimers < MaxTimers
            /\ token' = loginToken(r, now)
            /\ isLoggedIn' = TRUE
            /\ profileTimers' = profileTimers + 1
            /\ UNCHANGED loginError
       ELSE /\ loginError' = (screen = "login")
            /\ UNCHANGED <<token, isLoggedIn, profileTimers>>
    /\ UNCHANGED <<userCache, screen, shown, now, booted, loginTimer, cycles,
                   started, tk, app, eng, skl, chart,
                   dom, page, ext>>

\* setTimeout(() => this.renderProfile(), 1000) of the submit handler
ProfileTimerFires ==
    /\ profileTimers > 0
    /\ profileTimers' = profileTimers - 1
    /\ RenderProfile(token, "login")
    /\ UNCHANGED <<token, userCache, isLoggedIn, screen, shown, now, booted,
                   loginBusy, loginError, loginTimer, tk, app, eng, skl, chart,
                   dom, page, ext>>

\* setTimeout(() => UI.renderLogin(), ...) of Auth.logout and of the catch
\* block of UI.renderProfile
LoginTimerFires ==
    /\ loginTimer
    /\ loginTimer' = FALSE
    /\ screen' = "login"
    /\ shown' = NoData
    /\ loginError' = FALSE
    /\ UNCHANGED <<token, userCache, isLoggedIn, loading, now, booted,
                   loginBusy, profileTimers, cycles, started, tk, app, eng, skl, chart,
                   dom, page, ext>>

\* Auth.logout, from the logout button of the profile screen
Logout ==
    /\ screen = "profile"
    /\ token' = NoToken
    /\ userCache' = NoData
    /\ isLoggedIn' = FALSE
    /\ loginTimer' = TRUE
    /\ UNCHANGED <<screen, shown, loading, now, booted, loginBusy, loginError,
                   profileTimers, cycles, started, tk, app, eng, skl, chart,
                   dom, page, ext>>

\* Auth.validateSession called on its own
ValidateSession ==
    /\ booted
    /\ LET v == validateSession(token, now) IN
       /\ v.logout
       /\ token' = NoToken
       /\ userCache' = NoData
       /\ isLoggedIn' = FALSE
       /\ loginTimer' = TRUE
    /\ UNCHANGED <<screen, shown, loading, now, booted, loginBusy, loginError,
                   profileTimers, cycles, started, tk, app, eng, skl, chart,
                   dom, page, ext>>

\* API.clearCache
ClearCache ==
    /\ booted
    /\ userCache.has
    /\ userCache' = NoData
    /\ UNCHANGED <<token, isLoggedIn, screen, shown, loading, now, booted,
                   loginBusy, loginError, profileTimers, loginTimer, cycles,
                   started, tk, app, eng, skl, chart,
                   dom, page, ext>>

\* App.restart clearing the stored data without running init again
RestartClearsOnly ==
    /\ booted
    /\ token' = NoToken
    /\ userCache' = NoData
    /\ UNCHANGED <<isLoggedIn, screen, shown, loginError>>
    /\ UNCHANGED <<loading, now, booted, loginBusy, profileTimers, loginTimer,
                   cycles, started, tk, app, eng, skl, chart,
                   dom, page, ext>>

\* App.restart: clearStoredData, then init finds no token and renders login
Restart ==
    /\ booted
    /\ token' = NoToken
    /\ userCache' = NoData
    /\ isLoggedIn' = FALSE
    /\ screen' = "login"
    /\ shown' = NoData
    /\ loginError' = FALSE
    /\ UNCHANGED <<loading, now, booted, loginBusy, profileTimers, loginTimer,
                   cycles, started, tk, app, eng, skl, chart,
                   dom, page, ext>>

Tick ==
    /\ now < MaxNow
    /\ now' = now + 1
    /\ UNCHANGED <<token, userCache, isLoggedIn, screen, shown, loading,
                   booted, loginBusy, loginError, profileTimers, loginTimer,
                   cycles, started, tk, app, eng, skl, chart,
                   dom, page, ext>>

\* API.executeQuery from the response on: it resolves with the response
\* ("data"), resolves with undefined after a 401, or throws
executeQuery(a) ==
    CASE a \in {"ok", "noUser"} -> [res |-> "data", msg |-> NoMessage]
      [] a = "http401" -> [res |-> "undefined", msg |-> NoMessage]
      [] a = "http500" -> [res |-> "throw", msg |-> MSG_HTTP_500]
      [] a = "gqlError" -> [res |-> "throw", msg |-> MSG_GRAPHQL]
      [] a = "gqlJwt" -> [res |-> "throw", msg |-> MSG_GRAPHQL_JWT]

AuditQueries == {"auditUp", "auditDown"}

otherAudit(q) == IF q = "auditUp" THEN "auditDown" ELSE "auditUp"

\* What the fetch operation of query q throws once executeQuery has settled
\* with ex, NoMessage when it throws nothing (yet).  fetchAuditData reads its
\* two responses only when both have resolved; the others read response.data
\* at once.
fetchThrows(q, a, ex, resp) ==
    IF ex.res = "throw" THEN ex.msg
    ELSE IF q \in AuditQueries
    THEN IF /\ resp[otherAudit(q)] \in {"data", "undef"}
            /\ (ex.res = "undefined" \/ resp[otherAudit(q)] = "undef")
         THEN MSG_TYPE_ERROR
         ELSE NoMessage
    ELSE IF ex.res = "undefined" THEN MSG_TYPE_ERROR
    ELSE IF q = "userInfo" /\ a = "noUser" THEN MSG_NO_USER
    ELSE NoMessage

\* the skills operation without its catch handler
isOptionalNever(q) == FALSE

\* this.fetchUserSkills(userId).catch(...): the one operation whose failure
\* Promise.all never sees
isOptional(q) == q = "skills"

\* a Promise.all that was not handed the projects operation
allSettledForgetsProjects(resp) ==
    /\ \A q \in Required \ {"projects"} : resp[q] = "data"
    /\ resp["skills"] \in {"data", "caught"}

\* Promise.all of API.fetchCompleteUserData: fulfilled when every required
\* operation has resolved and the skills operation has resolved or been caught
allSettled(resp) ==
    /\ \A q \in Required : resp[q] = "data"
    /\ resp["skills"] \in {"data", "caught"}

\* One response of the remote source reaches cycle c, and everything that runs
\* before the next suspension: executeQuery, the fetch operation, Promise.all,
\* the rest of fetchCompleteUserData and of UI.renderProfile.
QueryResponse(c, q, a) ==
    /\ cycles[c].st = "running"
    /\ cycles[c].resp[q] = "pending"
    /\ a = "noUser" => q = "userInfo"
    /\ LET cyc == cycles[c]
           ex == executeQuery(a)
           out == a = "http401" /\ handleAuthError(MSG_TOKEN_EXPIRED)
           thrown == fetchThrows(q, a, ex, cyc.resp)
           fails == thrown # NoMessage /\ ~isOptional(q)
           newResp == [cyc.resp EXCEPT ![q] =
                          IF thrown # NoMessage
                          THEN IF isOptional(q) THEN "caught" ELSE "failed"
                          ELSE IF ex.res = "undefined" THEN "undef"
                          ELSE "data"]
           userData == BuildUserData(c, cyc.id,
                          IF newResp["skills"] = "data" THEN "explicit"
                          ELSE "substitute", now)
       IN
       /\ token' = IF out THEN NoToken ELSE token
       /\ isLoggedIn' = IF out THEN FALSE ELSE isLoggedIn
       /\ IF fails
          THEN /\ cycles' = [cycles EXCEPT ![c] =
                      [cyc EXCEPT !.st = "failed", !.err = thrown,
                          !.resp = [x \in Queries |->
                              IF x = q THEN "failed" ELSE "dropped"]]]
               /\ userCache' = IF out THEN NoData ELSE userCache
               /\ loginTimer' = (loginTimer \/ out \/ redirectsToLogin(thrown))
               /\ loading' = FALSE
               /\ UNCHANGED <<screen, shown, loginError>>
          ELSE IF allSettled(newResp)
          THEN /\ cycles' = [cycles EXCEPT ![c] =
                      [cyc EXCEPT !.st = "ok", !.resp = newResp]]
               /\ userCache' = userData
               /\ screen' = "profile"
               /\ shown' = userData
               /\ loginTimer' = (loginTimer \/ out)
               /\ loading' = FALSE
               /\ loginError' = FALSE
          ELSE /\ cycles' = [cycles EXCEPT ![c] = [cyc EXCEPT !.resp = newResp]]
               /\ userCache' = IF out THEN NoData ELSE userCache
               /\ loginTimer' = (loginTimer \/ out)
               /\ UNCHANGED <<screen, shown, loading, loginError>>
    /\ UNCHANGED <<now, booted, loginBusy, profileTimers, started, tk, app, eng, skl, chart,
                   dom, page, ext>>

Next ==
    \/ AppInit
    \/ \E filled \in BOOLEAN : LoginSubmit(filled)
    \/ \E r \in LoginAnswers : LoginResponse(r)
    \/ ProfileTimerFires
    \/ LoginTimerFires
    \/ Logout
    \/ ValidateSession
    \/ ClearCache
    \/ Restart
    \/ Tick
    \/ \E c \in DOMAIN cycles, q \in Queries, a \in Answers :
          QueryResponse(c, q, a)

Spec == Init /\ [][Next]_vars

----------------------------------------------------------------------------
(* SpecOverlap: MaxOverlap calls of UI.renderProfile have issued their      *)
(* queries in the same session (two submits of the login form, each of      *)
(* which schedules renderProfile), and their responses interleave.          *)

InitOverlap ==
    /\ token = IssuedToken(1)
    /\ userCache = NoData
    /\ isLoggedIn = TRUE
    /\ screen = "login"
    /\ shown = NoData
    /\ loading = TRUE
    /\ now = 1
    /\ booted = TRUE
    /\ loginBusy = FALSE
    /\ loginError = FALSE
    /\ profileTimers = 0
    /\ loginTimer = FALSE
    /\ cycles = [c \in 1..MaxOverlap |->
                    [st |-> "running", resp |-> [q \in Queries |-> "pending"],
                     id |-> 7, origin |-> "login", err |-> NoMessage]]
    /\ started = MaxOverlap
    /\ tk = IdleInspector
    /\ app = IdleApp
    /\ eng = IdleEngine
    /\ skl = IdleSkills
    /\ chart = IdleChart
    /\ dom = IdleDom
    /\ page = IdlePage
    /\ ext = IdleExt

\* the answers that tell a cycle that produces a dataset from one that fails
OverlapAnswers == {"ok", "http500"}

NextOverlap ==
    \/ \E c \in DOMAIN cycles, q \in Queries, a \in OverlapAnswers :
          QueryResponse(c, q, a)
    \/ Logout
    \/ LoginTimerFires

SpecOverlap == InitOverlap /\ [][NextOverlap]_vars

----------------------------------------------------------------------------
(* SpecToken: the token inspector, called on stored tokens of every shape *)

InitToken ==
    /\ token \in TokenSamples
    /\ userCache \in {NoData, OldData}
    /\ isLoggedIn = FALSE
    /\ screen = "blank"
    /\ shown = NoData
    /\ loading = TRUE
    /\ now = 1
    /\ booted = FALSE
    /\ loginBusy = FALSE
    /\ loginError = FALSE
    /\ profileTimers = 0
    /\ loginTimer = FALSE
    /\ cycles = [c \in CycleIds |-> IdleCycle]
    /\ started = 0
    /\ tk = IdleInspector
    /\ app = IdleApp
    /\ eng = IdleEngine
    /\ skl = IdleSkills
    /\ chart = IdleChart
    /\ dom = IdleDom
    /\ page = IdlePage
    /\ ext = IdleExt

\* Utils.isAuthenticated()
IsAuthenticatedCall ==
    /\ tk' = [fn |-> "isAuthenticated", arg |-> token, at |-> now,
              ret |-> isAuthenticated(token, now), id |-> Undefined]
    /\ UNCHANGED <<token, userCache, isLoggedIn, screen, shown, loading, now,
                   booted, loginBusy, loginError, profileTimers, loginTimer,
                   cycles, started, app, eng, skl, chart,
                   dom, page, ext>>

\* auth.validateSession(), with the logout it performs on an expired token
ValidateSessionCall ==
    /\ LET v == validateSession(token, now) IN
       /\ tk' = [fn |-> "validateSession", arg |-> token, at |-> now,
                 ret |-> v.valid, id |-> Undefined]
       /\ token' = IF v.logout THEN NoToken ELSE token
       /\ userCache' = IF v.logout THEN NoData ELSE userCache
       /\ isLoggedIn' = IF v.logout THEN FALSE ELSE isLoggedIn
       /\ loginTimer' = (loginTimer \/ v.logout)
    /\ UNCHANGED <<screen, shown, loading, now, booted, loginBusy, loginError,
                   profileTimers, cycles, started, app, eng, skl, chart,
                   dom, page, ext>>

\* auth.init()
AuthInitCall ==
    /\ LET v == validateSession(token, now) IN
       /\ tk' = [fn |-> "init", arg |-> token, at |-> now,
                 ret |-> (token.has /\ v.valid), id |-> Undefined]
       /\ token' = IF v.logout THEN NoToken ELSE token
       /\ userCache' = IF v.logout THEN NoData ELSE userCache
       /\ isLoggedIn' = (token.has /\ v.valid)
       /\ loginTimer' = (loginTimer \/ v.logout)
    /\ UNCHANGED <<screen, shown, loading, now, booted, loginBusy, loginError,
                   profileTimers, cycles, started, app, eng, skl, chart,
                   dom, page, ext>>

\* auth.getCurrentUserId()
GetCurrentUserIdCall ==
    /\ tk' = [fn |-> "getCurrentUserId", arg |-> token, at |-> now,
              ret |-> ~Falsy(getCurrentUserId(token)),
              id |-> getCurrentUserId(token)]
    /\ UNCHANGED <<token, userCache, isLoggedIn, screen, shown, loading, now,
                   booted, loginBusy, loginError, profileTimers, loginTimer,
                   cycles, started, app, eng, skl, chart,
                   dom, page, ext>>

NextToken ==
    \/ IsAuthenticatedCall
    \/ ValidateSessionCall
    \/ AuthInitCall
    \/ GetCurrentUserIdCall
    \/ Tick

SpecToken == InitToken /\ [][NextToken]_vars

----------------------------------------------------------------------------
(* Transactions and the totals derived from them *)

\* the amounts a transaction record may carry; Undefined is a record without
\* amount
AmountSamples ==
    {Undefined, Null, Num(65999), Num(1), Num(-500), Str(<<"n", "/", "a">>)}

RECURSIVE SeqsUpTo(_, _)
\* the sequences over S of length at most n
SeqsUpTo(S, n) ==
    IF n = 0 THEN {<<>>}
    ELSE LET shorter == SeqsUpTo(S, n - 1)
         IN  shorter \cup {Append(sq, x) : sq \in shorter, x \in S}

TxSamples == SeqsUpTo(AmountSamples, MaxTx)

RECURSIVE NatDigits(_)
NatDigits(n) ==
    IF n < 10 THEN <<DigitChars[n + 1]>>
    ELSE NatDigits(n \div 10) \o <<DigitChars[(n % 10) + 1]>>

\* String(v)
ToStr(v) ==
    CASE v.t = "number" ->
            IF v.n < 0 THEN <<"-">> \o NatDigits(-v.n) ELSE NatDigits(v.n)
      [] v.t = "string" -> v.s
      [] v.t = "undefined" -> <<"u", "n", "d", "e", "f", "i", "n", "e", "d">>
      [] v.t = "null" -> <<"n", "u", "l", "l">>
      [] OTHER -> <<"N", "a", "N">>

\* a + b: concatenation as soon as one operand is a string, else the sum of
\* the operands coerced to numbers
JsAdd(a, b) ==
    IF a.t = "string" \/ b.t = "string" THEN Str(ToStr(a) \o ToStr(b))
    ELSE IF ToNumber(a).t # "number" \/ ToNumber(b).t # "number" THEN NaN
    ELSE Num(ToNumber(a).n + ToNumber(b).n)

\* v || 0
OrZero(v) == IF Falsy(v) THEN Num(0) ELSE v

RECURSIVE totalXPFrom(_, _, _)
totalXPFrom(transactions, i, sum) ==
    IF i > Len(transactions) THEN sum
    ELSE totalXPFrom(transactions, i + 1, JsAdd(sum, OrZero(transactions[i])))

\* transactions.reduce((sum, t) => sum + (t.amount || 0), 0)
totalXP(transactions) == totalXPFrom(transactions, 1, Num(0))

RECURSIVE maxXPFrom(_, _, _)
maxXPFrom(listTransaction, i, sum) ==
    IF i > Len(listTransaction) THEN sum
    ELSE maxXPFrom(listTransaction, i + 1, JsAdd(sum, listTransaction[i]))

\* user.listTransaction.reduce((sum, transaction) =>
\*     sum + transaction.amount, 0) of src/app.js
maxXP(listTransaction) == maxXPFrom(listTransaction, 1, Num(0))

XP_PER_LEVEL == 66000

\* Math.floor(x / d) for a positive integer d: NaN when x is no number
FloorDiv(x, d) ==
    IF ToNumber(x).t # "number" THEN NaN ELSE Num(ToNumber(x).n \div d)

\* Utils.calculateLevel rounding to the nearest level
calculateLevelRounded(total) == FloorDiv(JsAdd(total, Num(XP_PER_LEVEL \div 2)), XP_PER_LEVEL)

\* Utils.calculateLevel
calculateLevel(total) == FloorDiv(total, XP_PER_LEVEL)

\* the values aggregate.sum.amount may carry: null when no transaction matches
SumSamples == {Null, Num(0), Num(1), Num(3), Num(50), Num(100), Num(-5)}

TwoDigits(n) == <<DigitChars[(n \div 10) + 1], DigitChars[(n % 10) + 1]>>

Abs(n) == IF n < 0 THEN -n ELSE n

\* (up / down).toFixed(2) for integers up and down > 0: the quotient rounded
\* to hundredths, written with sign, integer digits, point and two digits
ToFixed2(up, down) ==
    LET h == (200 * Abs(up) + down) \div (2 * down)
    IN  Str((IF up < 0 THEN <<"-">> ELSE <<>>)
            \o NatDigits(h \div 100) \o <<".">> \o TwoDigits(h % 100))

NotApplicable == Str(<<"N", "/", "A">>)

\* auditData.down > 0 ? ... : 'N/A' with the test negated to down === 0
auditRatioZeroTest(up, down) ==
    IF down.n # 0 THEN ToFixed2(up.n, Abs(down.n)) ELSE NotApplicable

\* auditData.down > 0 ? (auditData.up / auditData.down).toFixed(2) : 'N/A'
auditRatio(up, down) ==
    IF JsGreater(down, 0) THEN ToFixed2(up.n, down.n) ELSE NotApplicable

\* a grade k/2 that is no integer (k odd)
Half(k) == [t |-> "fraction", n |-> k, s |-> <<>>]

\* the grades a progress entry may carry
GradeSamples ==
    {Undefined, Null, Num(0), Num(1), Num(-1), Half(1), Half(3)}

\* p.grade >= 1 counting every non-negative grade
gradePassesLoose(g) ==
    \/ g.t = "number" /\ g.n >= 0
    \/ g.t = "fraction" /\ g.n >= 0

\* p.grade >= 1
gradePasses(g) ==
    \/ g.t = "number" /\ g.n >= 1
    \/ g.t = "fraction" /\ g.n >= 2

\* p.grade === 0
gradeFails(g) == g.t = "number" /\ g.n = 0

\* progress.filter(p => p.grade >= 1).length
passedProjects(progress) ==
    Cardinality({i \in DOMAIN progress : gradePasses(progress[i])})

\* progress.filter(p => p.grade === 0).length
failedProjects(progress) ==
    Cardinality({i \in DOMAIN progress : gradeFails(progress[i])})

\* Utils.calculatePercentage without its rounding (truncated)
calculatePercentageTruncated(value, total) ==
    IF total = 0 THEN 0 ELSE (100 * value) \div total

\* Utils.calculatePercentage: Math.round((value / total) * 100)
calculatePercentage(value, total) ==
    IF total = 0 THEN 0 ELSE (200 * value + total) \div (2 * total)

ProgressSamples == SeqsUpTo(GradeSamples, MaxProgress)

----------------------------------------------------------------------------
(* SpecDerive: the derivations of API.fetchCompleteUserData over the lists  *)
(* the transactions and progress queries and the sums the audit queries may *)
(* return                                                                   *)

\* the inputs of the derivation: every list of transactions, every pair of
\* audit sums and every list of grades, each with the others empty
EngineInputs ==
    {EngineOn(txs, Null, Null, <<>>) : txs \in TxSamples}
    \cup {EngineOn(<<>>, up, down, <<>>) : up \in SumSamples, down \in SumSamples}
    \cup {EngineOn(<<>>, Null, Null, progress) : progress \in ProgressSamples}

InitDerive ==
    /\ token = IssuedToken(1)
    /\ userCache = NoData
    /\ isLoggedIn = TRUE
    /\ screen = "blank"
    /\ shown = NoData
    /\ loading = TRUE
    /\ now = 1
    /\ booted = TRUE
    /\ loginBusy = FALSE
    /\ loginError = FALSE
    /\ profileTimers = 0
    /\ loginTimer = FALSE
    /\ cycles = [c \in CycleIds |-> IdleCycle]
    /\ started = 0
    /\ tk = IdleInspector
    /\ app = IdleApp
    /\ eng \in EngineInputs
    /\ skl = IdleSkills
    /\ chart = IdleChart
    /\ dom = IdleDom
    /\ page = IdlePage
    /\ ext = IdleExt

\* the lines of API.fetchCompleteUserData between Promise.all and the write
\* of the cache: totalXP, level, the pass and fail counts, the audit sums
\* and ratio, the pass rate
DeriveTotals ==
    /\ ~eng.done
    /\ LET total == totalXP(eng.txs)
           passed == passedProjects(eng.progress)
           failed == failedProjects(eng.progress)
           up == OrZero(eng.up)
           down == OrZero(eng.down)
       IN  eng' = [eng EXCEPT
                      !.done = TRUE,
                      !.totalXP = total,
                      !.level = calculateLevel(total),
                      !.auditUp = up,
                      !.auditDown = down,
                      !.auditRatio = auditRatio(up, down),
                      !.passedProjects = passed,
                      !.failedProjects = failed,
                      !.totalProjects = passed + failed,
                      !.passRate = IF passed + failed > 0
                                   THEN calculatePercentage(passed, passed + failed)
                                   ELSE 0]
    /\ UNCHANGED <<token, userCache, isLoggedIn, screen, shown, loading, now,
                   booted, loginBusy, loginError, profileTimers, loginTimer,
                   cycles, started, tk, app, skl, chart,
                   dom, page, ext>>

NextDerive == DeriveTotals

SpecDerive == InitDerive /\ [][NextDerive]_vars

----------------------------------------------------------------------------
(* SpecApp: the consolidated application of src/app.js.  app.tok is what    *)
(* localStorage holds under 'token' and 'jwt', app.sent the queries of the  *)
(* current fetchUserData with the identity each was built from.             *)

InitApp ==
    /\ token = NoToken
    /\ userCache = NoData
    /\ isLoggedIn = FALSE
    /\ screen = "blank"
    /\ shown = NoData
    /\ loading = FALSE
    /\ now = 1
    /\ booted = FALSE
    /\ loginBusy = FALSE
    /\ loginError = FALSE
    /\ profileTimers = 0
    /\ loginTimer = FALSE
    /\ cycles = [c \in CycleIds |-> IdleCycle]
    /\ started = 0
    /\ tk = IdleInspector
    /\ eng = IdleEngine
    /\ skl = IdleSkills
    /\ chart = IdleChart
    /\ dom = IdleDom
    /\ page = IdlePage
    /\ ext = IdleExt
    /\ app \in {[IdleApp EXCEPT !.tok = t] : t \in TokenSamples}

AppFrame ==
    UNCHANGED <<token, userCache, isLoggedIn, screen, shown, loading, now,
                booted, loginBusy, loginError, profileTimers, loginTimer,
                cycles, started, tk, eng, skl, chart,
                   dom, page, ext>>

\* getUserIdFromToken of src/app.js, with "throws" as the result [ok |-> FALSE]
appGetUserIdFromToken(tok) ==
    IF ~tok.has THEN [ok |-> FALSE, id |-> Undefined]
    ELSE IF ~tok.dec \/ Falsy(tok.sub) THEN [ok |-> FALSE, id |-> Undefined]
    ELSE [ok |-> TRUE, id |-> ParseInt(tok.sub)]

\* renderProfile up to the first await of fetchUserData: the identity is read
\* and the user query is sent, or renderLogin runs in the catch block
appRenderProfile(a, tok) ==
    LET r == appGetUserIdFromToken(tok) IN
    IF r.ok
    THEN [a EXCEPT !.tok = tok, !.pc = "userInfo", !.userId = r.id,
             !.sent = <<[q |-> "userInfo", userId |-> Undefined]>>,
             !.txs = <<>>, !.maxXP = Undefined, !.audits = 0]
    ELSE [a EXCEPT !.tok = tok, !.pc = "login", !.userId = Undefined,
             !.sent = <<>>, !.txs = <<>>, !.maxXP = Undefined, !.audits = 0]

\* initializeApp
InitializeApp ==
    /\ app.pc = "boot"
    /\ app' = IF app.tok.has THEN appRenderProfile(app, app.tok)
              ELSE [app EXCEPT !.pc = "login"]
    /\ AppFrame

AppAnswers == {"ok", "errors"}

\* executeGraphQLQuery(getUserInfoQuery()) returns or throws; on return the
\* transactions query is sent
AppUserInfoResponse(a) ==
    /\ app.pc = "userInfo"
    /\ app' = IF a = "ok"
              THEN [app EXCEPT !.pc = "transactions",
                       !.sent = Append(@, [q |-> "transactions",
                                           userId |-> app.userId])]
              ELSE [app EXCEPT !.pc = "login"]
    /\ AppFrame

\* executeGraphQLQuery(getUserXPQuery(userId)) returns the list txs or
\* throws; on return user.maxXP is computed and both audit queries are sent
AppTransactionsResponse(a, txs) ==
    /\ app.pc = "transactions"
    /\ app' = IF a = "ok"
              THEN [app EXCEPT !.pc = "audit", !.txs = txs,
                       !.maxXP = maxXP(txs), !.audits = 2,
                       !.sent = @ \o <<[q |-> "auditDown", userId |-> app.userId],
                                       [q |-> "auditUp", userId |-> app.userId]>>]
              ELSE [app EXCEPT !.pc = "login"]
    /\ AppFrame

\* one of the two audit queries returns or throws; Promise.all fulfils with
\* the second return and updateDashboard renders the profile
AppAuditResponse(a) ==
    /\ app.pc = "audit"
    /\ app.audits > 0
    /\ app' = IF a = "ok"
              THEN [app EXCEPT !.audits = @ - 1,
                       !.pc = IF app.audits = 1 THEN "profile" ELSE "audit"]
              ELSE [app EXCEPT !.pc = "login", !.audits = 0]
    /\ AppFrame

\* handleLogin when authenticateUser returns tok: the token is stored and
\* renderProfile runs (when it throws, only the error message is shown)
AppLogin(tok) ==
    /\ app.pc = "login"
    /\ app' = appRenderProfile(app, tok)
    /\ AppFrame

\* handleLogout
AppLogout ==
    /\ app.pc = "profile"
    /\ app' = [app EXCEPT !.tok = NoToken, !.pc = "login"]
    /\ AppFrame

NextApp ==
    \/ InitializeApp
    \/ \E a \in AppAnswers : AppUserInfoResponse(a)
    \/ \E a \in AppAnswers, txs \in TxSamples : AppTransactionsResponse(a, txs)
    \/ \E a \in AppAnswers : AppAuditResponse(a)
    \/ \E tok \in TokenSamples \ {NoToken} : AppLogin(tok)
    \/ AppLogout

SpecApp == InitApp /\ [][NextApp]_vars

----------------------------------------------------------------------------
(* Strings of characters, and the skills the application infers *)

UpperChars == <<"A", "B", "C", "D", "E", "F", "G", "H", "I", "J", "K", "L", "M", "N", "O", "P", "Q", "R", "S", "T", "U", "V", "W", "X", "Y", "Z">>

LowerChars == <<"a", "b", "c", "d", "e", "f", "g", "h", "i", "j", "k", "l", "m", "n", "o", "p", "q", "r", "s", "t", "u", "v", "w", "x", "y", "z">>

\* s.toLowerCase()
ToLowerCase(cs) ==
    [i \in DOMAIN cs |->
        IF \E k \in DOMAIN UpperChars : UpperChars[k] = cs[i]
        THEN LowerChars[CHOOSE k \in DOMAIN UpperChars : UpperChars[k] = cs[i]]
        ELSE cs[i]]

\* s.includes(pat) on strings of characters
StrIncludes(cs, pat) ==
    \E i \in 1..(Len(cs) - Len(pat) + 1) : SubSeq(cs, i, i + Len(pat) - 1) = pat

\* the order array.sort((a, b) => key(b) - key(a)) puts the elements in,
\* given their keys: descending and stable
StableOrderDesc(keys) ==
    LET rank(i) == 1 + Cardinality({j \in DOMAIN keys :
                          \/ keys[j] > keys[i]
                          \/ keys[j] = keys[i] /\ j < i})
    IN  [p \in DOMAIN keys |-> CHOOSE i \in DOMAIN keys : rank(i) = p]

\* array.sort((a, b) => b.amount - a.amount)
SortByAmount(sq) ==
    LET order == StableOrderDesc([i \in DOMAIN sq |-> sq[i].amount])
    IN  [p \in DOMAIN sq |-> sq[order[p]]]

\* array.sort((a, b) => b.xp - a.xp)
SortByXp(sq) ==
    LET order == StableOrderDesc([i \in DOMAIN sq |-> sq[i].xp])
    IN  [p \in DOMAIN sq |-> sq[order[p]]]

\* array.slice(0, n)
Slice(sq, n) == SubSeq(sq, 1, IF Len(sq) < n THEN Len(sq) ELSE n)

Skill(name, amount) == [name |-> name, amount |-> amount]

PATH_JS == Str(<<"/", "a", "/", "b", "/", "j", "a", "v", "a", "s", "c", "r", "i", "p", "t", "-", "b", "a", "s", "i", "c", "s">>)

PATH_GO == Str(<<"/", "a", "/", "b", "/", "g", "o", "-", "r", "e", "l", "o", "a", "d", "e", "d">>)

\* the entries of projectSkills: object.name (Null without object), path, grade
ProjectSkillSamples ==
    {[name |-> Str(<<"Q", "u", "a", "d">>), path |-> PATH_JS, grade |-> 1],
     [name |-> Str(<<"g", "o", "-", "r", "e", "l", "o", "a", "d", "e", "d">>), path |-> PATH_GO, grade |-> 2],
     [name |-> Str(<<"a", "s", "c", "i", "i", "-", "a", "r", "t">>), path |-> Null, grade |-> 1],
     [name |-> Null, path |-> PATH_JS, grade |-> 1]}

\* the skill transactions of the samples
SkillTransactionSamples ==
    {Skill(<<"g", "i", "t">>, 3), Skill(<<"s", "q", "l">>, 1)}

\* the lists the skills query returns: order_by: {amount: desc}
SkillTransactionLists ==
    {sq \in SeqsUpTo(SkillTransactionSamples, MaxSkillTx) :
        \A i \in DOMAIN sq : i < Len(sq) => sq[i].amount >= sq[i + 1].amount}

ProjectSkillLists == SeqsUpTo(ProjectSkillSamples, MaxProjects)

\* the rules of API.extractSkillFromProject on the path, in order
PathRules ==
    <<[pats |-> {<<"j", "a", "v", "a", "s", "c", "r", "i", "p", "t">>, <<"j", "s">>}, skill |-> <<"J", "a", "v", "a", "S", "c", "r", "i", "p", "t">>],
      [pats |-> {<<"g", "o", "l", "a", "n", "g">>, <<"g", "o">>}, skill |-> <<"G", "o">>],
      [pats |-> {<<"p", "y", "t", "h", "o", "n">>}, skill |-> <<"P", "y", "t", "h", "o", "n">>],
      [pats |-> {<<"r", "u", "s", "t">>}, skill |-> <<"R", "u", "s", "t">>],
      [pats |-> {<<"s", "q", "l">>}, skill |-> <<"S", "Q", "L">>],
      [pats |-> {<<"d", "o", "c", "k", "e", "r">>}, skill |-> <<"D", "o", "c", "k", "e", "r">>],
      [pats |-> {<<"l", "i", "n", "u", "x">>}, skill |-> <<"L", "i", "n", "u", "x">>],
      [pats |-> {<<"a", "l", "g", "o", "r", "i", "t", "h", "m">>}, skill |-> <<"A", "l", "g", "o", "r", "i", "t", "h", "m", "s">>],
      [pats |-> {<<"m", "a", "t", "h">>}, skill |-> <<"M", "a", "t", "h", "e", "m", "a", "t", "i", "c", "s">>]>>

\* and on the lower-cased project name
NameRules ==
    <<[pats |-> {<<"j", "s">>, <<"j", "a", "v", "a", "s", "c", "r", "i", "p", "t">>}, skill |-> <<"J", "a", "v", "a", "S", "c", "r", "i", "p", "t">>],
      [pats |-> {<<"g", "o">>, <<"g", "o", "l", "a", "n", "g">>}, skill |-> <<"G", "o">>],
      [pats |-> {<<"a", "l", "g", "o", "r", "i", "t", "h", "m">>}, skill |-> <<"A", "l", "g", "o", "r", "i", "t", "h", "m", "s">>],
      [pats |-> {<<"m", "a", "t", "h">>}, skill |-> <<"M", "a", "t", "h", "e", "m", "a", "t", "i", "c", "s">>],
      [pats |-> {<<"w", "e", "b">>}, skill |-> <<"W", "e", "b", " ", "D", "e", "v", "e", "l", "o", "p", "m", "e", "n", "t">>],
      [pats |-> {<<"a", "p", "i">>}, skill |-> <<"A", "P", "I", " ", "D", "e", "v", "e", "l", "o", "p", "m", "e", "n", "t">>],
      [pats |-> {<<"d", "a", "t", "a", "b", "a", "s", "e">>, <<"d", "b">>}, skill |-> <<"D", "a", "t", "a", "b", "a", "s", "e">>]>>

Matches(cs, rule) == \E pat \in rule.pats : StrIncludes(cs, pat)

\* the skill of the first rule that matches cs, <<>> when none does
FirstMatch(cs, rules) ==
    IF \E k \in DOMAIN rules : Matches(cs, rules[k])
    THEN rules[CHOOSE k \in DOMAIN rules :
                  /\ Matches(cs, rules[k])
                  /\ \A l \in 1..(k - 1) : ~Matches(cs, rules[l])].skill
    ELSE <<>>

\* API.extractSkillFromProject
extractSkillFromProject(projectName, path) ==
    IF ~Falsy(path) /\ FirstMatch(path.s, PathRules) # <<>>
    THEN FirstMatch(path.s, PathRules)
    ELSE IF FirstMatch(ToLowerCase(projectName.s), NameRules) # <<>>
    THEN FirstMatch(ToLowerCase(projectName.s), NameRules)
    ELSE <<"P", "r", "o", "g", "r", "a", "m", "m", "i", "n", "g">>

RECURSIVE skillMapFrom(_, _, _)
\* the Map of API.processProjectSkills after the projects from position i on,
\* as the sequence of its values in insertion order
skillMapFrom(projectSkills, i, skillMap) ==
    IF i > Len(projectSkills) THEN skillMap
    ELSE LET project == projectSkills[i]
             skillName == extractSkillFromProject(project.name, project.path)
             has(k) == ToLowerCase(skillMap[k].name) = ToLowerCase(skillName)
         IN  IF Falsy(project.name)
             THEN skillMapFrom(projectSkills, i + 1, skillMap)
             ELSE IF \E k \in DOMAIN skillMap : has(k)
             THEN skillMapFrom(projectSkills, i + 1,
                     [k \in DOMAIN skillMap |->
                         IF has(k)
                         THEN Skill(skillMap[k].name,
                                    skillMap[k].amount + project.grade)
                         ELSE skillMap[k]])
             ELSE skillMapFrom(projectSkills, i + 1,
                     Append(skillMap, Skill(skillName, project.grade)))

\* API.processProjectSkills
processProjectSkills(projectSkills) ==
    SortByAmount(skillMapFrom(projectSkills, 1, <<>>))

\* API.generateSkillsFromProjects
generateSkillsFromProjects(projects) ==
    LET passed == Cardinality({i \in DOMAIN projects : projects[i].grade >= 1})
    IN  <<Skill(<<"P", "r", "o", "b", "l", "e", "m", " ", "S", "o", "l", "v", "i", "n", "g">>, Len(projects) * 2),
          Skill(<<"P", "r", "o", "g", "r", "a", "m", "m", "i", "n", "g">>, passed * 3),
          Skill(<<"P", "r", "o", "j", "e", "c", "t", " ", "M", "a", "n", "a", "g", "e", "m", "e", "n", "t">>, Len(projects)),
          Skill(<<"C", "o", "d", "e", " ", "Q", "u", "a", "l", "i", "t", "y">>, passed * 2)>>

\* API.generateFallbackSkills
generateFallbackSkills ==
    <<Skill(<<"P", "r", "o", "g", "r", "a", "m", "m", "i", "n", "g">>, 85),
      Skill(<<"P", "r", "o", "b", "l", "e", "m", " ", "S", "o", "l", "v", "i", "n", "g">>, 75),
      Skill(<<"A", "l", "g", "o", "r", "i", "t", "h", "m", "s">>, 65),
      Skill(<<"W", "e", "b", " ", "D", "e", "v", "e", "l", "o", "p", "m", "e", "n", "t">>, 60),
      Skill(<<"T", "e", "a", "m", "w", "o", "r", "k">>, 55)>>

\* what fetchCompleteUserData receives as skills.  src/js/api.js reads
\* response.data.transaction, which the aliased query never returns, and
\* catches a failure with []; the API class of part_001 combines the skill
\* transactions with the processed project skills and substitutes the
\* fallback skills for a failure.
fetchUserSkills(build, outcome, skillTransactions, projectSkills) ==
    IF build = "api.js" THEN <<>>
    ELSE IF outcome = "fail" THEN generateFallbackSkills
    ELSE LET allSkills == skillTransactions \o processProjectSkills(projectSkills)
         IN  IF Len(allSkills) = 0 /\ Len(projectSkills) > 0
             THEN generateSkillsFromProjects(projectSkills)
             ELSE allSkills

BaseSkills ==
    <<Skill(<<"P", "r", "o", "g", "r", "a", "m", "m", "i", "n", "g">>, 80),
      Skill(<<"P", "r", "o", "b", "l", "e", "m", " ", "S", "o", "l", "v", "i", "n", "g">>, 75),
      Skill(<<"A", "l", "g", "o", "r", "i", "t", "h", "m", "s">>, 70),
      Skill(<<"W", "e", "b", " ", "D", "e", "v", "e", "l", "o", "p", "m", "e", "n", "t">>, 65),
      Skill(<<"T", "e", "a", "m", "w", "o", "r", "k">>, 60)>>

\* UI.generateDefaultSkills: Math.round(Math.min(100, baseAmount +
\* (level || 1) * 0.1 + (totalProjects || 0) * 0.5)), computed in tenths
generateDefaultSkills(level, totalProjects) ==
    [i \in DOMAIN BaseSkills |->
        LET tenths == 10 * BaseSkills[i].amount
                      + (IF level = 0 THEN 1 ELSE level) + 5 * totalProjects
            capped == IF tenths > 1000 THEN 1000 ELSE tenths
        IN  Skill(BaseSkills[i].name, (capped + 5) \div 10)]

\* UI.createAllCharts handing userData.skills to the chart as they are
skillsDataUnchecked(skills, level, totalProjects) == skills

\* UI.createAllCharts: userData.skills && userData.skills.length > 0
\*     ? userData.skills : this.generateDefaultSkills(userData)
skillsData(skills, level, totalProjects) ==
    IF Len(skills) > 0 THEN skills
    ELSE generateDefaultSkills(level, totalProjects)

\* Charts.createSkillsChart: skills.slice(0, 5).sort(...)
topSkills(skills) == SortByAmount(Slice(skills, 5))

----------------------------------------------------------------------------
(* SpecSkills: the skills query is answered, or fails, and the skills reach *)
(* the dataset and the skills chart                                         *)

\* the progress entries of the dataset, as far as the skills are concerned
SkillProgressSamples == {<<>>, <<[path |-> PATH_JS, grade |-> 1]>>}

SkillsInputs ==
    {SkillsOn(build, outcome, st, ps, progress, level, totalProjects) :
        build \in {"api.js", "part_001"}, outcome \in {"data", "fail"},
        st \in SkillTransactionLists, ps \in ProjectSkillLists,
        progress \in SkillProgressSamples, level \in {0, 1},
        totalProjects \in {0, 2}}

InitSkills ==
    /\ token = IssuedToken(1)
    /\ userCache = NoData
    /\ isLoggedIn = TRUE
    /\ screen = "blank"
    /\ shown = NoData
    /\ loading = TRUE
    /\ now = 1
    /\ booted = TRUE
    /\ loginBusy = FALSE
    /\ loginError = FALSE
    /\ profileTimers = 0
    /\ loginTimer = FALSE
    /\ cycles = [c \in CycleIds |-> IdleCycle]
    /\ started = 0
    /\ tk = IdleInspector
    /\ app = IdleApp
    /\ eng = IdleEngine
    /\ skl \in SkillsInputs
    /\ chart = IdleChart
    /\ dom = IdleDom
    /\ page = IdlePage
    /\ ext = IdleExt

\* the skills query settles: fetchUserSkills, the skills of the dataset,
\* the choice of createAllCharts and the bars of createSkillsChart
SkillsSettle ==
    /\ ~skl.done
    /\ LET returned == fetchUserSkills(skl.build, skl.outcome,
                           skl.skillTransactions, skl.projectSkills)
           data == skillsData(returned, skl.level, skl.totalProjects)
       IN  skl' = [skl EXCEPT !.done = TRUE, !.returned = returned,
                      !.skills = returned, !.skillsData = data,
                      !.topSkills = topSkills(data)]
    /\ UNCHANGED <<token, userCache, isLoggedIn, screen, shown, loading, now,
                   booted, loginBusy, loginError, profileTimers, loginTimer,
                   cycles, started, tk, app, eng, chart,
                   dom, page, ext>>

NextSkills == SkillsSettle

SpecSkills == InitSkills /\ [][NextSkills]_vars

----------------------------------------------------------------------------
(* SpecExtract: API.extractSkillFromProject labels one project *)

\* the project names and paths: every pattern of a rule by itself, names in
\* upper case, and a name and a path no rule knows
ExtractNameSamples ==
    {Str(pat) : pat \in UNION {NameRules[k].pats : k \in DOMAIN NameRules}}
    \cup {Str(<<"Q", "u", "a", "d">>), Str(<<"M", "A", "T", "H">>)}

ExtractPathSamples ==
    {Str(pat) : pat \in UNION {PathRules[k].pats : k \in DOMAIN PathRules}}
    \cup {Null, Str(<<"/", "x", "/", "q", "u", "a", "d">>),
          Str(<<"/", "x", "/", "a", "l", "g", "o", "r", "i", "t", "h", "m", "s">>)}

ExtractInputs ==
    {ExtractOn(projectName, path) :
        projectName \in ExtractNameSamples, path \in ExtractPathSamples}

InitExtract ==
    /\ token = IssuedToken(1)
    /\ userCache = NoData
    /\ isLoggedIn = TRUE
    /\ screen = "blank"
    /\ shown = NoData
    /\ loading = TRUE
    /\ now = 1
    /\ booted = TRUE
    /\ loginBusy = FALSE
    /\ loginError = FALSE
    /\ profileTimers = 0
    /\ loginTimer = FALSE
    /\ cycles = [c \in CycleIds |-> IdleCycle]
    /\ started = 0
    /\ tk = IdleInspector
    /\ app = IdleApp
    /\ eng = IdleEngine
    /\ skl = IdleSkills
    /\ chart = IdleChart
    /\ dom = IdleDom
    /\ page = IdlePage
    /\ ext \in ExtractInputs

\* this.extractSkillFromProject(project.object.name, project.path)
ExtractSkill ==
    /\ ~ext.done
    /\ ext' = [ext EXCEPT !.done = TRUE,
                  !.skillName = extractSkillFromProject(ext.projectName, ext.path)]
    /\ UNCHANGED <<token, userCache, isLoggedIn, screen, shown, loading, now,
                   booted, loginBusy, loginError, profileTimers, loginTimer,
                   cycles, started, tk, app, eng, skl, chart, dom, page>>

NextExtract == ExtractSkill

SpecExtract == InitExtract /\ [][NextExtract]_vars

----------------------------------------------------------------------------
(* The charts: XP by project and the piscine statistics *)

TOP_PROJECTS == 10

\* the position of the last "/" of cs before position n, 0 when there is none
LastSlash(cs, n) ==
    IF \E i \in 1..n : cs[i] = "/"
    THEN CHOOSE i \in 1..n : cs[i] = "/" /\ \A j \in (i + 1)..n : cs[j] # "/"
    ELSE 0

\* pathParts[pathParts.length - 1] || pathParts[pathParts.length - 2]
\*     || 'Unknown' for pathParts = path.split('/')
projectNameOf(cs) ==
    LET l == LastSlash(cs, Len(cs))
        last == SubSeq(cs, l + 1, Len(cs))
        k == IF l > 1 THEN LastSlash(cs, l - 1) ELSE 0
        before == IF l > 1 THEN SubSeq(cs, k + 1, l - 1) ELSE <<>>
    IN  IF last # <<>> THEN last
        ELSE IF before # <<>> THEN before
        ELSE <<"U", "n", "k", "n", "o", "w", "n">>

RECURSIVE projectXPFrom(_, _, _)
\* the object projectXP after the transactions from position i on, as the
\* sequence of its entries in insertion order
projectXPFrom(transactions, i, projectXP) ==
    IF i > Len(transactions) THEN projectXP
    ELSE LET tr == transactions[i]
             name == projectNameOf(tr.path.s)
             has(k) == projectXP[k].name = name
         IN  IF Falsy(tr.path) \/ ~JsGreater(tr.amount, 0)
             THEN projectXPFrom(transactions, i + 1, projectXP)
             ELSE IF \E k \in DOMAIN projectXP : has(k)
             THEN projectXPFrom(transactions, i + 1,
                     [k \in DOMAIN projectXP |->
                         IF has(k)
                         THEN [name |-> name,
                               xp |-> projectXP[k].xp + tr.amount.n]
                         ELSE projectXP[k]])
             ELSE projectXPFrom(transactions, i + 1,
                     Append(projectXP, [name |-> name, xp |-> tr.amount.n]))

\* the projects cut to ten before they are sorted
topProjectsCutFirst(entries) ==
    SortByXp(Slice(entries, TOP_PROJECTS))

\* .sort((a, b) => b.xp - a.xp).slice(0, 10)
topProjects(entries) == Slice(SortByXp(entries), TOP_PROJECTS)

\* projectData of Charts.createXPByProjectChart, <<>> when it draws a
\* message instead of bars
projectData(transactions) ==
    topProjects(projectXPFrom(transactions, 1, <<>>))

\* the transaction of project i: its path ends in the project's name, with
\* a trailing "/" for the even ones
ProjectTx(i, amount) ==
    [path |-> Str(IF i % 2 = 0
                  THEN <<"/", "x", "/", LowerChars[i], "/">>
                  ELSE <<"/", "x", "/", LowerChars[i]>>),
     amount |-> Num(amount)]

\* transactions no group may count: without path, with amount 0, negative
\* or missing
JunkTxs ==
    <<[path |-> Null, amount |-> Num(500)],
      [path |-> Str(<<"/", "x", "/", "z">>), amount |-> Num(0)],
      [path |-> Str(<<"/", "x", "/", "z">>), amount |-> Num(-5)],
      [path |-> Str(<<"/", "x", "/", "z">>), amount |-> Undefined]>>

RECURSIVE TxsOf(_, _, _)
\* one transaction for each project of S from i on, in the order of the
\* projects, with the amounts of the pattern
TxsOf(S, i, pattern) ==
    IF i > MaxGroups THEN <<>>
    ELSE (IF i \in S
          THEN <<ProjectTx(i, IF pattern = "rising" THEN 100 * i
                              ELSE 100 * ((i % 3) + 1))>>
          ELSE <<>>) \o TxsOf(S, i + 1, pattern)

\* the transaction lists of the chart: one transaction per project of S,
\* then possibly a second transaction for project 1 and the junk
ChartTransactionLists ==
    {TxsOf(S, 1, pattern)
        \o (IF again THEN <<ProjectTx(1, 250)>> ELSE <<>>)
        \o (IF junk THEN JunkTxs ELSE <<>>) :
        S \in SUBSET (1..MaxGroups), pattern \in {"rising", "tied"},
        again \in BOOLEAN, junk \in BOOLEAN}

PATH_PISCINE_JS == Str(<<"/", "x", "/", "p", "i", "s", "c", "i", "n", "e", "-", "j", "s", "/", "a">>)

PATH_PISCINE_GO == Str(<<"/", "x", "/", "p", "i", "s", "c", "i", "n", "e", "-", "g", "o", "/", "b">>)

PATH_DIV == Str(<<"/", "x", "/", "d", "i", "v", "-", "0", "1", "/", "c">>)

PATH_PISCINE_JS_UPPER == Str(<<"/", "x", "/", "P", "i", "s", "c", "i", "n", "e", "-", "J", "S", "/", "a">>)

PATH_PISCINE_GO_JSON == Str(<<"/", "x", "/", "p", "i", "s", "c", "i", "n", "e", "-", "g", "o", "/", "j", "s", "o", "n">>)

PiscineEntrySamples ==
    {[path |-> pa, grade |-> g] :
        pa \in {PATH_PISCINE_JS, PATH_PISCINE_GO, PATH_DIV, Null,
                PATH_PISCINE_JS_UPPER, PATH_PISCINE_GO_JSON},
        g \in {Num(1), Num(0), Null}}

PiscineProgressLists == SeqsUpTo(PiscineEntrySamples, MaxPiscine)

\* the filter of Charts.createPiscineStatsChart
isPiscine(p) ==
    /\ ~Falsy(p.path)
    /\ \/ StrIncludes(p.path.s, <<"p", "i", "s", "c", "i", "n", "e", "-", "j", "s">>)
       \/ StrIncludes(p.path.s, <<"p", "i", "s", "c", "i", "n", "e", "-", "g", "o">>)
       \/ StrIncludes(p.path.s, <<"/", "j", "s", "/">>)
       \/ StrIncludes(p.path.s, <<"/", "g", "o", "/">>)

\* const type = isJS ? 'JavaScript' : 'Go'
piscineType(item) ==
    IF StrIncludes(item.path.s, <<"j", "s">>) \/ StrIncludes(item.path.s, <<"j", "a", "v", "a", "s", "c", "r", "i", "p", "t">>)
    THEN "JavaScript" ELSE "Go"

\* piscineStats[lang]
piscineStats(piscineData, lang) ==
    LET own == {i \in DOMAIN piscineData : piscineType(piscineData[i]) = lang}
        passed == Cardinality({i \in own : gradePasses(piscineData[i].grade)})
    IN  [passed |-> passed, failed |-> Cardinality(own) - passed,
         total |-> Cardinality(own)]

\* chartHeight * 0.8 for height 300 and margins 20 and 60
PiscineFullHeight == ((300 - 20 - 60) * 8) \div 10

RECURSIVE Gcd(_, _)
Gcd(a, b) == IF b = 0 THEN a ELSE Gcd(b, a % b)

\* the number a / b (b > 0) in lowest terms
Frac(a, b) == [num |-> a \div Gcd(a, b), den |-> b \div Gcd(a, b)]

PiscineLanguages == <<"JavaScript", "Go">>

\* the bars with every height scaled by the largest total of the chart
piscineBarsSharedScale(progress) ==
    LET piscineData == SelectSeq(progress, isPiscine)
        stats(lang) == piscineStats(piscineData, lang)
        languages == SelectSeq(PiscineLanguages, LAMBDA lang : stats(lang).total > 0)
        largest == IF stats("Go").total > stats("JavaScript").total
                   THEN stats("Go").total ELSE stats("JavaScript").total
    IN  [k \in DOMAIN languages |->
            [lang |-> languages[k],
             passedHeight |-> Frac(stats(languages[k]).passed * PiscineFullHeight,
                                   largest),
             failedHeight |-> Frac(stats(languages[k]).failed * PiscineFullHeight,
                                   largest),
             totalHeight |-> Frac(stats(languages[k]).total * PiscineFullHeight,
                                  largest),
             total |-> stats(languages[k]).total]]

\* the bars Charts.createPiscineStatsChart draws, by language: the heights
\* of the passed, failed and total rectangles and the total its label
\* shows; <<>> when it draws a message
piscineBars(progress) ==
    LET piscineData == SelectSeq(progress, isPiscine)
        stats(lang) == piscineStats(piscineData, lang)
        languages == SelectSeq(PiscineLanguages, LAMBDA lang : stats(lang).total > 0)
    IN  [k \in DOMAIN languages |->
            [lang |-> languages[k],
             passedHeight |-> Frac(stats(languages[k]).passed * PiscineFullHeight,
                                   stats(languages[k]).total),
             failedHeight |-> Frac(stats(languages[k]).failed * PiscineFullHeight,
                                   stats(languages[k]).total),
             totalHeight |-> Frac(PiscineFullHeight, 1),
             total |-> stats(languages[k]).total]]

----------------------------------------------------------------------------
(* SpecCharts: UI.createAllCharts draws the two charts from a dataset *)

ChartInputs ==
    {ChartOn("xpByProject", txs, <<>>) : txs \in ChartTransactionLists}
    \cup {ChartOn("piscine", <<>>, progress) : progress \in PiscineProgressLists}

InitCharts ==
    /\ token = IssuedToken(1)
    /\ userCache = NoData
    /\ isLoggedIn = TRUE
    /\ screen = "profile"
    /\ shown = NoData
    /\ loading = TRUE
    /\ now = 1
    /\ booted = TRUE
    /\ loginBusy = FALSE
    /\ loginError = FALSE
    /\ profileTimers = 0
    /\ loginTimer = FALSE
    /\ cycles = [c \in CycleIds |-> IdleCycle]
    /\ started = 0
    /\ tk = IdleInspector
    /\ app = IdleApp
    /\ eng = IdleEngine
    /\ skl = IdleSkills
    /\ chart \in ChartInputs
    /\ dom = IdleDom
    /\ page = IdlePage
    /\ ext = IdleExt

ChartFrame ==
    UNCHANGED <<token, userCache, isLoggedIn, screen, shown, loading, now,
                booted, loginBusy, loginError, profileTimers, loginTimer,
                cycles, started, tk, app, eng, skl, dom, page, ext>>

\* Charts.createXPByProjectChart(userData.transactions, ...)
CreateXPByProjectChart ==
    /\ chart.kind = "xpByProject"
    /\ ~chart.done
    /\ chart' = [chart EXCEPT !.done = TRUE,
                    !.projectData = projectData(chart.transactions)]
    /\ ChartFrame

\* Charts.createPiscineStatsChart(userData.progress, ...)
CreatePiscineStatsChart ==
    /\ chart.kind = "piscine"
    /\ ~chart.done
    /\ chart' = [chart EXCEPT !.done = TRUE, !.bars = piscineBars(chart.progress)]
    /\ ChartFrame

NextCharts ==
    \/ CreateXPByProjectChart
    \/ CreatePiscineStatsChart

SpecCharts == InitCharts /\ [][NextCharts]_vars

----------------------------------------------------------------------------
(* The renderers and their containers *)

\* JavaScript numbers as the renderers compute them: exact ratios, and the
\* three values a division by zero gives
JsNaN == [k |-> "NaN", num |-> 0, den |-> 1]

JsInfinity(sign) ==
    [k |-> IF sign > 0 THEN "Infinity" ELSE "-Infinity", num |-> 0, den |-> 1]

\* the number n / d (d # 0) in lowest terms
Ratio(n, d) ==
    LET g == Gcd(Abs(n), Abs(d))
        s == IF d < 0 THEN -1 ELSE 1
    IN  [k |-> "number", num |-> (s * n) \div g, den |-> (s * d) \div g]

\* a / b
JsDivide(a, b) ==
    IF b # 0 THEN Ratio(a, b)
    ELSE IF a = 0 THEN JsNaN
    ELSE JsInfinity(a)

\* q * w for an integer w > 0
JsTimes(q, w) == IF q.k = "number" THEN Ratio(q.num * w, q.den) ELSE q

\* h - q for an integer h
JsMinusFrom(h, q) ==
    IF q.k = "number" THEN Ratio(h * q.den - q.num, q.den)
    ELSE IF q.k = "NaN" THEN JsNaN
    ELSE JsInfinity(IF q.k = "Infinity" THEN -1 ELSE 1)

\* what a container can hold: a message, or a chart with its marks and the
\* two ends of its time axis
Message(text) == [kind |-> "message", text |-> text, marks |-> <<>>, axis |-> <<>>]

Drawing(marks, axis) == [kind |-> "chart", text |-> "", marks |-> marks, axis |-> axis]

\* the XP transactions of the line chart
LineTransactionSamples ==
    {[createdAt |-> d, amount |-> a] : d \in 1..MaxDate, a \in {0, 50, 100}}

LineTransactionLists == SeqsUpTo(LineTransactionSamples, MaxLine)

RECURSIVE chartDataFrom(_, _, _)
\* transactions.map(t => { cumulativeXP += t.amount; return {date, xp} })
\* from position i on
chartDataFrom(transactions, i, cumulativeXP) ==
    IF i > Len(transactions) THEN <<>>
    ELSE LET xp == cumulativeXP + transactions[i].amount
         IN  <<[date |-> transactions[i].createdAt, xp |-> xp]>>
                 \o chartDataFrom(transactions, i + 1, xp)

chartData(transactions) == chartDataFrom(transactions, 1, 0)

\* the points of the line for a non-empty transaction list
linePoints(transactions, chartWidth, chartHeight) ==
    LET data == chartData(transactions)
        minDate == data[1].date
        maxDate == data[Len(data)].date
        xps == {data[i].xp : i \in DOMAIN data}
        largestXP == CHOOSE x \in xps : \A y \in xps : y <= x
    IN  [i \in DOMAIN data |->
            [x |-> JsTimes(JsDivide(data[i].date - minDate, maxDate - minDate),
                           chartWidth),
             y |-> JsMinusFrom(chartHeight,
                               JsTimes(JsDivide(data[i].xp, largestXP), chartHeight))]]

\* the ends of the time axis
lineAxis(transactions) ==
    <<chartData(transactions)[1].date,
      chartData(transactions)[Len(transactions)].date>>

\* Charts.createXPProgressChart: what the container holds after the call
createXPProgressChart(transactions) ==
    IF Len(transactions) = 0
    THEN <<Message("No XP data available for chart")>>
    ELSE <<Drawing(linePoints(transactions, 600 - 60 - 30, 300 - 20 - 40),
                   lineAxis(transactions))>>

\* createXPChart of src/app.js: what the container holds after the call
createXPChart(container, transactions) ==
    IF Len(transactions) = 0
    THEN <<Message("No XP data available")>>
    ELSE IF Len(transactions) < 2
    THEN Append(container, Message("Not enough data for chart"))
    ELSE Append(container,
                Drawing(linePoints(transactions, 600 - 60 - 20, 300 - 20 - 40),
                        lineAxis(transactions)))

\* createAuditRatioChart of src/app.js: what the container holds after the
\* call, the marks being the widths of the two bars
createAuditRatioChart(container, xpUp, xpDown) ==
    LET maxValue == IF xpUp > xpDown THEN xpUp ELSE xpDown
        upWidth == IF maxValue > 0 THEN JsTimes(JsDivide(xpUp, maxValue), 280)
                   ELSE Ratio(0, 1)
        downWidth == IF maxValue > 0 THEN JsTimes(JsDivide(xpDown, maxValue), 280)
                     ELSE Ratio(0, 1)
    IN  IF xpUp = 0 /\ xpDown = 0
        THEN <<Message("No audit data available")>>
        ELSE Append(container, Drawing(<<upWidth, downWidth>>, <<>>))

\* Charts.createSkillsChart: what the container holds after the call, the
\* marks being the skills of the bars
createSkillsChart(skills) ==
    IF Len(skills) = 0
    THEN <<Message("Skills data will appear here as you complete more projects!")>>
    ELSE <<Drawing(topSkills(skills), <<>>)>>

----------------------------------------------------------------------------
(* SpecRender: one renderer is called on its container, then called again *)
(* with the same data                                                      *)

RenderInputs ==
    {DomOn(r, txs, 0, 0, <<>>) :
        r \in {"Charts.createXPProgressChart", "createXPChart"},
        txs \in LineTransactionLists}
    \cup {DomOn("createAuditRatioChart", <<>>, up, down, <<>>) :
            up \in {0, 50, 100}, down \in {0, 50, 100}}
    \cup {DomOn("Charts.createSkillsChart", <<>>, 0, 0, skills) :
            skills \in SeqsUpTo(SkillTransactionSamples, MaxSkillTx)}

InitRender ==
    /\ token = IssuedToken(1)
    /\ userCache = NoData
    /\ isLoggedIn = TRUE
    /\ screen = "profile"
    /\ shown = NoData
    /\ loading = FALSE
    /\ now = 1
    /\ booted = TRUE
    /\ loginBusy = FALSE
    /\ loginError = FALSE
    /\ profileTimers = 0
    /\ loginTimer = FALSE
    /\ cycles = [c \in CycleIds |-> IdleCycle]
    /\ started = 0
    /\ tk = IdleInspector
    /\ app = IdleApp
    /\ eng = IdleEngine
    /\ skl = IdleSkills
    /\ chart = IdleChart
    /\ dom \in RenderInputs
    /\ page = IdlePage
    /\ ext = IdleExt

RenderFrame ==
    UNCHANGED <<token, userCache, isLoggedIn, screen, shown, loading, now,
                booted, loginBusy, loginError, profileTimers, loginTimer,
                cycles, started, tk, app, eng, skl, chart, page, ext>>

\* Charts.createXPProgressChart(transactions, containerId)
CreateXPProgressChart ==
    /\ dom.renderer = "Charts.createXPProgressChart"
    /\ dom.calls < MaxCalls
    /\ dom' = [dom EXCEPT !.calls = @ + 1,
                  !.container = createXPProgressChart(dom.transactions)]
    /\ RenderFrame

\* createXPChart(transactions) of src/app.js
CreateXPChart ==
    /\ dom.renderer = "createXPChart"
    /\ dom.calls < MaxCalls
    /\ dom' = [dom EXCEPT !.calls = @ + 1,
                  !.container = createXPChart(dom.container, dom.transactions)]
    /\ RenderFrame

\* createAuditRatioChart(xpUp, xpDown) of src/app.js
CreateAuditRatioChart ==
    /\ dom.renderer = "createAuditRatioChart"
    /\ dom.calls < MaxCalls
    /\ dom' = [dom EXCEPT !.calls = @ + 1,
                  !.container = createAuditRatioChart(dom.container, dom.up, dom.down)]
    /\ RenderFrame

\* Charts.createSkillsChart(skills, containerId)
CreateSkillsChart ==
    /\ dom.renderer = "Charts.createSkillsChart"
    /\ dom.calls < MaxCalls
    /\ dom' = [dom EXCEPT !.calls = @ + 1,
                  !.container = createSkillsChart(dom.skills)]
    /\ RenderFrame

NextRender ==
    \/ CreateXPProgressChart
    \/ CreateXPChart
    \/ CreateAuditRatioChart
    \/ CreateSkillsChart

SpecRender == InitRender /\ [][NextRender]_vars

----------------------------------------------------------------------------
(* SpecAllCharts: UI.createAllCharts draws the six charts of a dataset on  *)
(* a page where some of the chart containers exist                         *)

\* userData.piscineProgress || userData.progress
piscineInput(userData) ==
    IF userData.piscineProgress.has THEN userData.piscineProgress
    ELSE userData.progress

\* what the call of the renderer of container id does: "throws", "returns"
\* without touching the container, or the drawing it leaves: "message" or
\* "chart"
rendererOutcome(id, exists, userData) ==
    CASE id = "xp-progress-chart" ->
            IF ~exists THEN "returns"
            ELSE IF ~userData.transactions.has
                    \/ Len(userData.transactions.list) = 0 THEN "message"
            ELSE "chart"
      [] id = "audit-chart" ->
            IF ~exists THEN "returns"
            ELSE IF userData.auditUp = 0 /\ userData.auditDown = 0 THEN "message"
            ELSE "chart"
      [] id = "project-ratio-chart" ->
            IF ~exists THEN "returns"
            ELSE IF userData.passedProjects + userData.failedProjects = 0
            THEN "message"
            ELSE "chart"
      [] id = "xp-by-project-chart" ->
            IF ~exists THEN "throws"
            ELSE IF ~userData.transactions.has
                    \/ Len(userData.transactions.list) = 0 THEN "message"
            ELSE IF Len(projectData(userData.transactions.list)) = 0
            THEN "message"
            ELSE "chart"
      [] id = "piscine-stats-chart" ->
            IF ~exists THEN "throws"
            ELSE IF ~piscineInput(userData).has
                    \/ Len(piscineInput(userData).list) = 0 THEN "message"
            ELSE IF Len(piscineBars(piscineInput(userData).list)) = 0
            THEN "message"
            ELSE "chart"
      [] id = "skills-chart" ->
            IF ~exists THEN "returns"
            ELSE IF Len(skillsData(userData.skills, userData.level,
                                   userData.totalProjects)) = 0 THEN "message"
            ELSE "chart"

RECURSIVE createAllChartsFrom(_, _, _, _)
\* the try block of UI.createAllCharts from its k-th call on: what the
\* containers hold afterwards, and whether the catch block ran
createAllChartsFrom(k, present, userData, drawn) ==
    IF k > Len(ChartContainers) THEN [drawn |-> drawn, error |-> FALSE]
    ELSE LET outcome == rendererOutcome(ChartContainers[k],
                                        ChartContainers[k] \in present, userData)
         IN  IF outcome = "throws" THEN [drawn |-> drawn, error |-> TRUE]
             ELSE createAllChartsFrom(k + 1, present, userData,
                     IF outcome = "returns" THEN drawn
                     ELSE [drawn EXCEPT ![k] = outcome])

Absent == [has |-> FALSE, list |-> <<>>]

Present(list) == [has |-> TRUE, list |-> list]

GradesOf(progress) == [i \in DOMAIN progress |-> progress[i].grade]

\* the datasets: from either build of fetchCompleteUserData (only the one
\* of part_001 has piscineProgress), with and without transactions,
\* progress entries, audits and skills
UserDataSamples ==
    {[transactions |-> txs, progress |-> Present(progress),
      piscineProgress |-> IF build = "part_001"
                          THEN Present(SelectSeq(progress, isPiscine))
                          ELSE Absent,
      skills |-> skills, auditUp |-> audit[1], auditDown |-> audit[2],
      passedProjects |-> passedProjects(GradesOf(progress)),
      failedProjects |-> failedProjects(GradesOf(progress)),
      level |-> 0,
      totalProjects |-> passedProjects(GradesOf(progress))
                            + failedProjects(GradesOf(progress))] :
        txs \in {Absent, Present(<<>>), Present(<<ProjectTx(1, 100)>>),
                 Present(JunkTxs)},
        progress \in {<<>>, <<[path |-> PATH_PISCINE_JS, grade |-> Num(1)]>>,
                      <<[path |-> PATH_DIV, grade |-> Num(0)]>>},
        build \in {"api.js", "part_001"},
        skills \in {<<>>, <<Skill(<<"g", "i", "t">>, 3)>>},
        audit \in {<<0, 0>>, <<50, 100>>}}

PageInputs ==
    {PageOn(present, userData) :
        present \in SUBSET {ChartContainers[k] : k \in DOMAIN ChartContainers},
        userData \in UserDataSamples}

InitAllCharts ==
    /\ token = IssuedToken(1)
    /\ userCache = NoData
    /\ isLoggedIn = TRUE
    /\ screen = "profile"
    /\ shown = NoData
    /\ loading = FALSE
    /\ now = 1
    /\ booted = TRUE
    /\ loginBusy = FALSE
    /\ loginError = FALSE
    /\ profileTimers = 0
    /\ loginTimer = FALSE
    /\ cycles = [c \in CycleIds |-> IdleCycle]
    /\ started = 0
    /\ tk = IdleInspector
    /\ app = IdleApp
    /\ eng = IdleEngine
    /\ skl = IdleSkills
    /\ chart = IdleChart
    /\ dom = IdleDom
    /\ page \in PageInputs
    /\ ext = IdleExt

\* UI.createAllCharts(userData)
CreateAllCharts ==
    /\ ~page.done
    /\ LET after == createAllChartsFrom(1, page.present, page.userData, page.drawn)
       IN  page' = [page EXCEPT !.done = TRUE, !.drawn = after.drawn,
                                !.error = after.error]
    /\ UNCHANGED <<token, userCache, isLoggedIn, screen, shown, loading, now,
                   booted, loginBusy, loginError, profileTimers, loginTimer,
                   cycles, started, tk, app, eng, skl, chart, dom, ext>>

NextAllCharts == CreateAllCharts

SpecAllCharts == InitAllCharts /\ [][NextAllCharts]_vars

----------------------------------------------------------------------------
(* Properties of the session and of the fetch cycle *)

\* a response answered with HTTP 401 reaches a query of cycle c
Unauthorized(c) == \E q \in Queries : QueryResponse(c, q, "http401")

\* C1: when a query of a fetch cycle is answered with HTTP 401, the cycle
\* produces no dataset and the session is invalidated: the stored token is
\* removed and the login screen is shown or scheduled.
C1_UnauthorizedInvalidatesSession ==
    [][\A c \in DOMAIN cycles :
          Unauthorized(c) =>
              /\ cycles'[c].st # "ok"
              /\ ~token'.has
              /\ (loginTimer' \/ screen' = "login")]_vars

\* C2: when two fetch cycles overlap and both produced a dataset, the cached
\* and the displayed dataset are those of the cycle that started later: the
\* dataset of the older cycle is neither cached nor displayed.
C2_LastCycleWins ==
    \A c, d \in DOMAIN cycles :
        (c < d /\ cycles[c].st = "ok" /\ cycles[d].st = "ok") =>
            /\ userCache.has => userCache.cycle # c
            /\ shown.has => shown.cycle # c

\* C3: a dataset is in the cache, on the profile screen or returned to
\* UI.renderProfile only when every required query of its fetch cycle has
\* resolved with data.
C3_NoPartialDataset ==
    /\ \A d \in {userCache, shown} :
          (d.has /\ d.cycle \in DOMAIN cycles) =>
              \A q \in Required : cycles[d.cycle].resp[q] = "data"
    /\ \A c \in DOMAIN cycles :
          cycles[c].st = "ok" => \A q \in Required : cycles[c].resp[q] = "data"

C3_Witness ==
    /\ userCache.has /\ userCache.cycle = 1
    /\ shown = userCache
    /\ screen = "profile"

\* a fetch cycle whose required queries all succeeded stores its dataset
CycleWrites ==
    \E c \in DOMAIN cycles, q \in Queries, a \in Answers :
        /\ QueryResponse(c, q, a)
        /\ cycles'[c].st = "ok"
        /\ userCache'.has /\ userCache'.dataComplete /\ userCache'.cycle = c

\* a fetch cycle fails
CycleFails ==
    \E c \in DOMAIN cycles, q \in Queries, a \in Answers :
        QueryResponse(c, q, a) /\ cycles'[c].st = "failed"

\* validateSession, on its own or inside Auth.init, finds the token expired
ExpiryLogout ==
    (AppInit \/ ValidateSession) /\ validateSession(token, now).logout

\* C4 as stated: the cached dataset changes only when a successful cycle
\* replaces it with a complete dataset or when logout, clearStoredData or
\* clearCache removes it; init, validateSession and a failing cycle leave it
\* as it was.
C4_Original ==
    [][/\ userCache' # userCache =>
             \/ CycleWrites
             \/ (Logout \/ Restart \/ ClearCache) /\ ~userCache'.has
       /\ (AppInit \/ ValidateSession \/ CycleFails) =>
             userCache' = userCache]_vars

\* C4, amended: the cached dataset changes only when a successful cycle
\* replaces it with a complete dataset or when it is removed by logout (the
\* button's, or the one validateSession performs, also inside init, on an
\* expired token), clearStoredData or clearCache; a failing cycle, and init
\* and validateSession on any other token, leave it as it was.
C4_CacheWriters ==
    [][/\ userCache' # userCache =>
             \/ CycleWrites
             \/ (Logout \/ Restart \/ ClearCache \/ ExpiryLogout)
                   /\ ~userCache'.has
       /\ ((AppInit \/ ValidateSession) /\ ~validateSession(token, now).logout) =>
             userCache' = userCache
       /\ CycleFails => userCache' = userCache]_vars

C4_Witness ==
    /\ cycles[1].st = "ok"
    /\ shown.has /\ shown.dataComplete
    /\ ~userCache.has
    /\ ~token.has

\* C5: a fetch cycle produces a dataset if and only if all its required
\* queries succeed: it never fails on the skills query, it fails as soon as
\* a required operation fails, and it succeeds once all required operations
\* have resolved and the skills operation has resolved or been substituted.
C5_DatasetIffRequiredSucceed ==
    \A c \in DOMAIN cycles :
        LET r == cycles[c].resp IN
        /\ cycles[c].st = "ok" => \A q \in Required : r[q] = "data"
        /\ cycles[c].st = "failed" => \E q \in Required : r[q] = "failed"
        /\ r["skills"] # "failed"
        /\ (\E q \in Required : r[q] = "failed") => cycles[c].st = "failed"
        /\ ((\A q \in Required : r[q] = "data") /\ r["skills"] \in {"data", "caught"})
              => cycles[c].st = "ok"

C5_Witness ==
    /\ cycles[1].st = "ok"
    /\ cycles[1].resp["skills"] = "caught"
    /\ userCache.has /\ userCache.cycle = 1 /\ userCache.skills = "substitute"

\* a login attempt fails
LoginFails == \E r \in LoginAnswers \ {"ok"} : LoginResponse(r)

\* a data fetch fails for another reason than a 401 answer
FetchFails ==
    \/ ProfileTimerFires /\ started' = started
    \/ \E c \in DOMAIN cycles, q \in Queries, a \in Answers \ {"http401"} :
          QueryResponse(c, q, a) /\ cycles'[c].st = "failed"

\* C6: a failed login attempt and a failed data fetch that is no
\* authorization failure leave the stored token and auth.isLoggedIn as they
\* were.
C6_FailureKeepsSession ==
    [][(LoginFails \/ FetchFails) =>
          (token' = token /\ isLoggedIn' = isLoggedIn)]_vars

C6_Witness ==
    /\ cycles[1].st = "failed" /\ cycles[1].err = MSG_HTTP_500
    /\ token.has /\ isLoggedIn
    /\ loginError /\ ~loginBusy

\* C7: once logout has removed the token and the cached dataset, the cached
\* dataset stays absent as long as no login has stored a token again,
\* whatever fetch cycles were in flight.
C7_AbsentAfterLogout ==
    [][(~token.has /\ ~userCache.has) => ~userCache'.has]_vars

----------------------------------------------------------------------------
(* Properties of the token inspector *)

\* a token is live at time t: it is stored, its payload decodes, it carries
\* an expiry claim, and that expiry is a time strictly greater than t
Live(tok, t) ==
    /\ tok.has
    /\ tok.dec
    /\ tok.exp.t # "undefined"
    /\ ToNumber(tok.exp).t = "number"
    /\ ToNumber(tok.exp).n > t

\* C9: Utils.isAuthenticated and Auth.validateSession return true if and
\* only if a token is stored, its payload decodes, it carries an expiry
\* claim and that expiry is strictly greater than the current time; a token
\* without expiry claim, or whose expiry equals now, is not live.
C9_LiveIffUnexpired ==
    tk.fn \in {"isAuthenticated", "validateSession"} =>
        (tk.ret <=> Live(tk.arg, tk.at))

----------------------------------------------------------------------------
(* Properties of the consolidated application and of the derived totals *)

\* the stored token yields no integer identity
NoIdentity(tok) ==
    \/ ~tok.has
    \/ ~tok.dec
    \/ tok.sub.t \in {"undefined", "null"}
    \/ ParseInt(tok.sub).t # "number"

\* C8: when the stored token is missing, undecodable, without subject claim
\* or with a subject claim that does not parse as an integer, the fetch
\* fails before any query is issued; no query carries an identity that is
\* not an integer.
C8_IntegerIdentity ==
    /\ (app.pc # "boot" /\ NoIdentity(app.tok)) => app.sent = <<>>
    /\ \A i \in DOMAIN app.sent :
          app.sent[i].q # "userInfo" => app.sent[i].userId.t = "number"

RECURSIVE SumOfAmounts(_, _)
\* the sum of the amounts from position i on, an amount that is missing or
\* not a number counting 0
SumOfAmounts(txs, i) ==
    IF i > Len(txs) THEN 0
    ELSE (IF txs[i].t = "number" THEN txs[i].n ELSE 0) + SumOfAmounts(txs, i + 1)

\* C10: for every transaction sequence the dataset's total XP is the sum of
\* the amounts of the records, a record whose amount is missing or not a
\* number contributing 0.
C10_TotalIsSum ==
    eng.done => eng.totalXP = Num(SumOfAmounts(eng.txs, 1))

\* the same of the total of the consolidated application (user.maxXP)
C10_ConsolidatedTotalIsSum ==
    app.pc \in {"audit", "profile"} => app.maxXP = Num(SumOfAmounts(app.txs, 1))

----------------------------------------------------------------------------
(* Properties of the derived dataset *)

\* C11: for every non-negative total XP the level is floor(total / 66000):
\* level * 66000 <= total < (level + 1) * 66000; level(0) = 0,
\* level(65999) = 0 and level(66000) = 1.
C11_LevelIsFloor ==
    (eng.done /\ eng.totalXP.t = "number" /\ eng.totalXP.n >= 0) =>
        /\ eng.level.t = "number"
        /\ eng.level.n * 66000 <= eng.totalXP.n
        /\ eng.totalXP.n < (eng.level.n + 1) * 66000
        /\ eng.totalXP.n = 0 => eng.level.n = 0
        /\ eng.totalXP.n = 65999 => eng.level.n = 0
        /\ eng.totalXP.n = 66000 => eng.level.n = 1

C11_Witness ==
    eng.done /\ eng.totalXP = Num(66000) /\ eng.level = Num(1)

\* C12: in every dataset total XP and level are numbers that are not
\* negative, whatever amounts the transactions carry.
C12_NonNegative ==
    eng.done =>
        /\ eng.totalXP.t = "number" /\ eng.totalXP.n >= 0
        /\ eng.level.t = "number" /\ eng.level.n >= 0

\* the position of the decimal point of a toFixed string
PointOf(cs) == CHOOSE i \in DOMAIN cs : cs[i] = "."

\* a string is a decimal number with exactly two decimals
IsFixed2(v) ==
    /\ v.t = "string"
    /\ \E i \in DOMAIN v.s : v.s[i] = "."
    /\ Len(v.s) = PointOf(v.s) + 2
    /\ IsDigit(v.s[Len(v.s)]) /\ IsDigit(v.s[Len(v.s) - 1])

\* the number such a string denotes, in hundredths
Hundredths(v) ==
    LET neg == v.s[1] = "-"
        int == DigitPrefix(v.s, IF neg THEN 2 ELSE 1, 0)
        frac == DigitPrefix(v.s, PointOf(v.s) + 1, 0)
    IN  (IF neg THEN -1 ELSE 1) * (100 * int + frac)

\* C13 as stated: the audit ratio is 'N/A' when the received sum is 0 and is
\* exactly given / received when it is positive.
C13_Original ==
    eng.done =>
        /\ eng.auditDown.n = 0 => eng.auditRatio = NotApplicable
        /\ eng.auditDown.n > 0 =>
              /\ IsFixed2(eng.auditRatio)
              /\ Hundredths(eng.auditRatio) * eng.auditDown.n
                    = 100 * eng.auditUp.n

\* C13, amended: the audit ratio is 'N/A' whenever the received sum is not
\* positive (0 or absent), even if the given sum is positive; otherwise it is
\* the decimal string of given / received rounded to two decimals ("0.50"
\* for 50 / 100), never NaN or Infinity.
C13_RatioRounded ==
    eng.done =>
        /\ eng.auditUp = (IF eng.up = Null THEN Num(0) ELSE eng.up)
        /\ eng.auditDown = (IF eng.down = Null THEN Num(0) ELSE eng.down)
        /\ eng.auditDown.n <= 0 => eng.auditRatio = NotApplicable
        /\ eng.auditDown.n > 0 =>
              /\ IsFixed2(eng.auditRatio)
              /\ 2 * Abs(100 * eng.auditUp.n
                         - Hundredths(eng.auditRatio) * eng.auditDown.n)
                    <= eng.auditDown.n
        /\ (eng.auditUp = Num(50) /\ eng.auditDown = Num(100)) =>
              eng.auditRatio = Str(<<"0", ".", "5", "0">>)

C13_Witness ==
    /\ eng.done
    /\ eng.auditUp = Num(1) /\ eng.auditDown = Num(3)
    /\ eng.auditRatio = Str(<<"0", ".", "3", "3">>)

TwiceGrade(g) ==
    CASE g.t = "number" -> 2 * g.n
      [] g.t = "fraction" -> g.n
      [] OTHER -> -1

\* C15: a progress entry counts as passed exactly when its grade is >= 1 and
\* as failed exactly when its grade is 0; an entry whose grade is missing,
\* negative or another fraction counts as neither, so passed + failed never
\* exceeds the number of entries, and their sum is the denominator of the
\* pass rate.
C15_PassFailCounts ==
    eng.done =>
        /\ eng.passedProjects =
              Cardinality({i \in DOMAIN eng.progress :
                              TwiceGrade(eng.progress[i]) >= 2})
        /\ eng.failedProjects =
              Cardinality({i \in DOMAIN eng.progress :
                              /\ eng.progress[i].t = "number"
                              /\ TwiceGrade(eng.progress[i]) = 0})
        /\ eng.passedProjects + eng.failedProjects <= Len(eng.progress)
        /\ eng.totalProjects = eng.passedProjects + eng.failedProjects

C15_Witness ==
    /\ eng.done
    /\ Len(eng.progress) = 4
    /\ \E i \in DOMAIN eng.progress : eng.progress[i] = Half(1)
    /\ \E i \in DOMAIN eng.progress : eng.progress[i] = Null
    /\ eng.passedProjects = 1 /\ eng.failedProjects = 1

----------------------------------------------------------------------------
(* Properties of the skills *)

\* C16: for every outcome of the skills query and every dataset, the skill
\* sequence that reaches the skills chart is non-empty.
C16_SkillsNeverEmpty ==
    skl.done => (Len(skl.skillsData) > 0 /\ Len(skl.topSkills) > 0)

C16_Witness ==
    /\ skl.done
    /\ skl.build = "part_001" /\ skl.outcome = "data"
    /\ skl.skillTransactions = <<>> /\ skl.projectSkills = <<>>
    /\ skl.level = 0 /\ skl.totalProjects = 0
    /\ skl.skills = <<>>
    /\ Len(skl.skillsData) = 5

\* C17: the skill sequence fetchUserSkills returns is sorted in descending
\* order of amount.
C17_SortedDescending ==
    skl.done =>
        \A i, j \in DOMAIN skl.returned :
            i < j => skl.returned[i].amount >= skl.returned[j].amount

\* C18: when the skills query fails and the progress data holds one entry
\* with grade 1 and path "/a/b/javascript-basics", the skills of the dataset
\* contain an entry named "JavaScript" with amount >= 1.
C18_JavaScriptInferred ==
    (/\ skl.done
     /\ skl.outcome = "fail"
     /\ skl.progress = <<[path |-> PATH_JS, grade |-> 1]>>) =>
        \E i \in DOMAIN skl.skills :
            /\ skl.skills[i].name = <<"J", "a", "v", "a", "S", "c", "r", "i", "p", "t">>
            /\ skl.skills[i].amount >= 1

----------------------------------------------------------------------------
(* Properties of the charts *)

\* the transactions of the chart that count for a project: with a path and
\* a positive amount
Counted(txs) ==
    {i \in DOMAIN txs :
        txs[i].path.t = "string" /\ txs[i].amount.t = "number"
        /\ txs[i].amount.n > 0}

\* the groups the transactions fall into
GroupNames(txs) == {projectNameOf(txs[i].path.s) : i \in Counted(txs)}

RECURSIVE GroupSumFrom(_, _, _)
\* the summed XP of the group name over the transactions from i on
GroupSumFrom(txs, name, i) ==
    IF i > Len(txs) THEN 0
    ELSE (IF i \in Counted(txs) /\ projectNameOf(txs[i].path.s) = name
          THEN txs[i].amount.n ELSE 0) + GroupSumFrom(txs, name, i + 1)

\* the position of the first counted transaction of the group name
FirstTx(txs, name) ==
    CHOOSE i \in Counted(txs) :
        /\ projectNameOf(txs[i].path.s) = name
        /\ \A j \in Counted(txs) :
              projectNameOf(txs[j].path.s) = name => i <= j

\* the chart shows at most 10 groups, each once and with its summed XP, and
\* no group it leaves out has more XP than one it shows
ShowsLargestGroups ==
    LET txs == chart.transactions
        pd == chart.projectData
        names == GroupNames(txs)
        smaller == IF Cardinality(names) < 10 THEN Cardinality(names) ELSE 10
    IN  /\ Len(pd) = smaller
        /\ \A i \in DOMAIN pd :
              /\ pd[i].name \in names
              /\ pd[i].xp = GroupSumFrom(txs, pd[i].name, 1)
        /\ \A i, j \in DOMAIN pd : i # j => pd[i].name # pd[j].name
        /\ \A n \in names :
              (\A i \in DOMAIN pd : pd[i].name # n) =>
                  \A i \in DOMAIN pd : pd[i].xp >= GroupSumFrom(txs, n, 1)

C20_PerBucketHeights ==
    (chart.done /\ chart.kind = "piscine") =>
        \A k \in DOMAIN chart.bars :
            LET own(p) == isPiscine(p) /\ piscineType(p) = chart.bars[k].lang
            IN  piscineBars(SelectSeq(chart.progress, own)) = <<chart.bars[k]>>

C20_Witness ==
    /\ chart.done /\ chart.kind = "piscine"
    /\ Len(chart.bars) = 2
    /\ piscineStats(SelectSeq(chart.progress, isPiscine), "JavaScript").total = 1
    /\ piscineStats(SelectSeq(chart.progress, isPiscine), "Go").total = 2
    /\ chart.bars[1].passedHeight = Frac(PiscineFullHeight, 1)
    /\ chart.bars[2].passedHeight = Frac(PiscineFullHeight, 2)

----------------------------------------------------------------------------
(* Properties of the renderers *)

LineRenderers == {"Charts.createXPProgressChart", "createXPChart"}

\* a coordinate of the drawing is the result of a division by zero
DividedByZero(d) ==
    \E i \in DOMAIN d.marks :
        d.marks[i].x.k # "number" \/ d.marks[i].y.k # "number"

\* C21: after the cumulative XP line renderer has been called with a
\* transaction sequence of length 0 or 1, its container holds the
\* placeholder and no coordinate computed by a division by zero.
C21_DegeneratePlaceholder ==
    (dom.renderer \in LineRenderers /\ dom.calls > 0
        /\ Len(dom.transactions) <= 1)
    => \A i \in DOMAIN dom.container :
           dom.container[i].kind = "message" /\ ~DividedByZero(dom.container[i])

\* what one call of d's renderer on the empty container leaves in it
OneCall(d) ==
    CASE d.renderer = "Charts.createXPProgressChart" ->
            createXPProgressChart(d.given.transactions)
      [] d.renderer = "createXPChart" -> createXPChart(<<>>, d.given.transactions)
      [] d.renderer = "createAuditRatioChart" ->
            createAuditRatioChart(<<>>, d.up, d.down)
      [] d.renderer = "Charts.createSkillsChart" ->
            createSkillsChart(d.given.skills)
      [] OTHER -> <<>>

\* C22: however many times a renderer has been called with the same data
\* on the same container, the container holds exactly the drawing one call
\* produces, and the input sequences are as they were given.
C22_IdempotentReadOnly ==
    dom.calls > 0
    => /\ dom.container = OneCall(dom)
       /\ dom.transactions = dom.given.transactions
       /\ dom.skills = dom.given.skills

\* the arrangements of txs in ascending order of createdAt
AscendingArrangements(txs) ==
    {[i \in DOMAIN txs |-> txs[f[i]]] :
        f \in {g \in [DOMAIN txs -> DOMAIN txs] :
                  /\ \A i, j \in DOMAIN txs : i # j => g[i] # g[j]
                  /\ \A i, j \in DOMAIN txs :
                        i < j => txs[g[i]].createdAt <= txs[g[j]].createdAt}}

\* C24: the line chart drawn from two or more transactions is the one
\* drawn from them taken in ascending order of createdAt: running sum and
\* both ends of the time axis, whatever order they were given in.
C24_AscendingOrder ==
    (dom.renderer \in LineRenderers /\ dom.calls > 0
        /\ Len(dom.transactions) >= 2)
    => \E sorted \in AscendingArrangements(dom.transactions) :
           LET last == dom.container[Len(dom.container)]
               expected == OneCall([dom EXCEPT !.given.transactions = sorted])[1]
           IN  last = expected

\* C27: after UI.createAllCharts, every chart container that exists holds
\* a drawing, whichever other renderer failed.
C27_RenderersIndependent ==
    page.done => \A k \in DOMAIN ChartContainers :
                    ChartContainers[k] \in page.present => page.drawn[k] # "none"

----------------------------------------------------------------------------
(* Properties of the session at start-up and of the loading indicator *)

\* the stored token decodes and carries an expiry that is a time not after t
Expired(tok, t) ==
    /\ tok.has
    /\ tok.dec
    /\ tok.exp.t \in {"number", "string"}
    /\ ToNumber(tok.exp).t = "number"
    /\ ToNumber(tok.exp).n <= t

\* C23: when App.init runs with a stored token whose expiry is not in the
\* future, the token and the cached dataset are removed, auth.isLoggedIn is
\* false, no query is issued and the login screen is rendered.
C23_ExpiredAtInitLogsOut ==
    [][(~booted /\ booted' /\ Expired(token, now))
        => /\ token' = NoToken
           /\ userCache' = NoData
           /\ ~isLoggedIn'
           /\ started' = started
           /\ screen' = "login"]_vars

\* C28: in every reachable state, whatever logins, logouts, initialisations,
\* session validations, authentication errors and restarts came before,
\* auth.isLoggedIn = true implies that a token is stored under TOKEN_KEY.
C28_LoggedInHasToken == isLoggedIn => token.has

\* logged in by a login at time 2
C28_Witness == isLoggedIn /\ token = IssuedToken(2)

\* a fetch cycle is in flight
InFlight == \E c \in CycleIds : cycles[c].st = "running"

\* C29: the loading indicator is visible whenever a fetch cycle is in
\* flight, and once the application has started it is hidden whenever no
\* fetch cycle and no login attempt is in flight.
C29_LoadingTracksWork ==
    /\ InFlight => loading
    /\ (booted /\ ~InFlight /\ ~loginBusy) => ~loading

----------------------------------------------------------------------------
(* Properties of the skill inference and of the piscine classification *)

\* C25: when the skills query is answered, the skills that reach the chart
\* are exactly the explicit skill records if there is one; skills derived
\* from the projects only when there is no explicit record; placeholder
\* skills only when there is neither.
C25_FirstNonEmptyWins ==
    (skl.done /\ skl.outcome = "data")
    => IF Len(skl.skillTransactions) > 0
       THEN skl.skillsData = skl.skillTransactions
       ELSE IF Len(skl.projectSkills) > 0
       THEN skl.skillsData \in {processProjectSkills(skl.projectSkills),
                                generateSkillsFromProjects(skl.projectSkills)}
       ELSE skl.skillsData = generateDefaultSkills(skl.level, skl.totalProjects)

\* the path of p matches the pattern of the track, whatever its case
OnTrack(p, lang) ==
    /\ ~Falsy(p.path)
    /\ IF lang = "JavaScript"
       THEN \/ StrIncludes(ToLowerCase(p.path.s), <<"p", "i", "s", "c", "i", "n", "e", "-", "j", "s">>)
            \/ StrIncludes(ToLowerCase(p.path.s), <<"/", "j", "s", "/">>)
       ELSE \/ StrIncludes(ToLowerCase(p.path.s), <<"p", "i", "s", "c", "i", "n", "e", "-", "g", "o">>)
            \/ StrIncludes(ToLowerCase(p.path.s), <<"/", "g", "o", "/">>)

\* C26: the piscine chart counts in the JavaScript bucket exactly the
\* entries whose path matches the JavaScript track pattern and in the Go
\* bucket exactly those whose path matches the Go track pattern, whatever
\* the case of the path; an entry that matches neither is in no bucket.
C26_BucketsByTrack ==
    (chart.done /\ chart.kind = "piscine")
    => \A lang \in {"JavaScript", "Go"} :
           LET n == Cardinality({i \in DOMAIN chart.progress :
                                    OnTrack(chart.progress[i], lang)})
               own == {k \in DOMAIN chart.bars : chart.bars[k].lang = lang}
           IN  IF n = 0 THEN own = {}
               ELSE \E k \in own : chart.bars[k].total = n

\* no pattern of any rule occurs where the rules look for it
NoRuleMatches(projectName, path) ==
    /\ Falsy(path) \/ \A k \in DOMAIN PathRules : \A pat \in PathRules[k].pats :
                          ~StrIncludes(path.s, pat)
    /\ \A k \in DOMAIN NameRules : \A pat \in NameRules[k].pats :
           ~StrIncludes(ToLowerCase(projectName.s), pat)

\* C30: extractSkillFromProject returns 'Programming' exactly when no rule
\* matches, and no rule is shadowed by an earlier one: a path that is a
\* pattern of a path rule, or a name that is a pattern of a name rule when
\* there is no path, is labelled by that rule, so that 'algorithm' is
\* labelled 'Algorithms'.
C30_NoRuleShadowed ==
    ext.done
    => /\ (ext.skillName = <<"P", "r", "o", "g", "r", "a", "m", "m", "i", "n", "g">>)
            <=> NoRuleMatches(ext.projectName, ext.path)
       /\ \A k \in DOMAIN PathRules :
            (~Falsy(ext.path) /\ ext.path.s \in PathRules[k].pats)
                => ext.skillName = PathRules[k].skill
       /\ \A k \in DOMAIN NameRules :
            (Falsy(ext.path) /\ ToLowerCase(ext.projectName.s) \in NameRules[k].pats)
                => ext.skillName = NameRules[k].skill

====
